---- MODULE Spec2Model ----
(***************************************************************************)
(* Model of the session core of forkify-cmdline: Session / SessionManager *)
(* (session_manager.py), DocumentProcessor and its retry decorator         *)
(* (document_processor.py) and the /ld command of the main loop            *)
(* (claude.py).                                                            *)
(*                                                                         *)
(* Conventions.  A Python string that the code inspects character by      *)
(* character (names, prompt ids) is a sequence of characters; prompt-id   *)
(* digits are the integers 0..9.  Python None is the record None.  A      *)
(* datetime is modelled by its type only (the clock's value is outside    *)
(* the core): DATETIME is a datetime object, ISOSTR its isoformat text.   *)
(***************************************************************************)
EXTENDS Integers, Sequences, FiniteSets, TLC

VARIABLES
    sessions_dir,     \* the directory "sessions": uuid -> file content
    name_dirs,        \* names n for which <base>/n exists under DIRECTORIES
    processed_docs,   \* names n for which processed-docs/n/understanding.md exists
    next_uuid,        \* source of fresh uuid4 values
    current_session,  \* DocumentProcessor.current_session
    result,           \* outcome of the last DocumentProcessor / main-loop call
    rcfg,             \* retry decorator: (max_retries, initial_delay, max_delay)
    rstate,           \* retry wrapper: position in the loop
    retry,            \* retry wrapper: loop variable
    delay,            \* retry wrapper: local delay
    attempts,         \* retry wrapper: outcomes of the calls of func so far
    sleeps,           \* retry wrapper: time.sleep calls so far
    raised,           \* retry wrapper: the exception that left the wrapper
    actors,           \* processes sharing the sessions directory: where each is
                      \* between Session.create_new and the end of save_session
    ask               \* the ask_question call in progress: its position and locals

coreVars  == <<sessions_dir, name_dirs, processed_docs, next_uuid, current_session, result>>
retryVars == <<rcfg, rstate, retry, delay, attempts, sleeps, raised>>
vars      == <<sessions_dir, name_dirs, processed_docs, next_uuid, current_session, result,
               rcfg, rstate, retry, delay, attempts, sleeps, raised, actors, ask>>

----------------------------------------------------------------------------
(* Bounds *)

\* uuid4 values that may be allocated
MaxUuid == 2
\* cap on the input tokens charged in all, in hundreds of tokens
MaxTokenUnits == 3
\* largest max_retries the decorator is configured with
MaxRetriesCfg == 5
\* largest initial_delay the decorator is configured with
MaxInitDelay == 2
\* get_next_prompt_id calls made on one session
MaxCalls == 25
\* processes that create a session in the same sessions directory
MaxActors == 2
\* questions already answered when the ask_question call followed step by
\* step begins
MaxPairs == 2

----------------------------------------------------------------------------
(* Program constants *)

DEFAULT_CONTEXT_WINDOW == 10
DEFAULT_MAX_RETRIES    == 5
DEFAULT_INITIAL_DELAY  == 1
DEFAULT_MAX_DELAY      == 32
\* prices per 1000 tokens are 0.003 and 0.015: per token, in millionths
input_token_price  == 3
output_token_price == 15

None     == [none |-> TRUE]
DATETIME == [type |-> "datetime"]
ISOSTR   == [type |-> "str"]

SLASH == "/"
MAIN  == <<"m", "a", "i", "n">>
ALT   == <<"a", "l", "t">>
MAIN_ALT == <<"m", "a", "i", "n", "/", "a", "l", "t">>
A_SLASH_B == <<"a", "/", "b">>

\* names given to create_conversation / switch_conversation / process_documents
ConvNames   == {MAIN, MAIN_ALT}
\* names given to create_branch
BranchNames == {ALT, A_SLASH_B}
Questions   == {"q1"}
Answers     == {"a1"}
ConvIds     == {"AAAAAA"}
\* usage blocks an endpoint response may carry: (input_tokens, output_tokens)
SmallUsage  == <<100, 50>>
LargeUsage  == <<200, 100>>
Usages      == {SmallUsage, LargeUsage}
\* arguments given to /ld
LdArgs      == {0, 1}
\* context_window given to reload_documents (0 would be: the argument is
\* left out; the default window is longer than the histories explored)
ReloadArgs  == {1}

Min(a, b) == IF a < b THEN a ELSE b
Max(a, b) == IF a > b THEN a ELSE b


----------------------------------------------------------------------------
(* Strings and prompt ids *)

\* '/' in branch_name
HasSlash(s) == \E i \in 1..Len(s) : s[i] = SLASH

\* str(n) for n >= 0, most significant digit first
RECURSIVE Digits(_)
Digits(n) == IF n < 10 THEN <<n>> ELSE Digits(n \div 10) \o <<n % 10>>

\* left-pad with zeros up to width w (never truncates)
RECURSIVE ZeroPad(_, _)
ZeroPad(s, w) == IF Len(s) >= w THEN s ELSE ZeroPad(<<0>> \o s, w)

\* f"{n:05d}"
FormatPromptId(n) == ZeroPad(Digits(n), 5)

\* int(s) for a string of digits
RECURSIVE ParseInt(_)
ParseInt(s) ==
    IF s = <<>> THEN 0
    ELSE 10 * ParseInt(SubSeq(s, 1, Len(s) - 1)) + s[Len(s)]

\* Python's seq[-n:]  (seq[-0:] is seq[0:], the whole sequence)
SliceLast(s, n) ==
    LET start == IF -n < 0 THEN Max(Len(s) - n, 0) ELSE Min(-n, Len(s))
    IN  SubSeq(s, start + 1, Len(s))

SetMax(S) == CHOOSE x \in S : \A y \in S : y <= x

\* int(msg['prompt_id']) for msg in message_window if msg['role'] == 'user'
UserIdSeq(mw) ==
    LET RECURSIVE go(_)
        go(i) == IF i > Len(mw) THEN <<>>
                 ELSE IF mw[i].role = "user"
                      THEN <<ParseInt(mw[i].prompt_id)>> \o go(i + 1)
                      ELSE go(i + 1)
    IN  go(1)

UserIds(mw) == {UserIdSeq(mw)[i] : i \in 1..Len(UserIdSeq(mw))}

----------------------------------------------------------------------------
(* Session, BranchInfo and their JSON form *)

\* json.dumps(understanding.model_dump()) and the bare summary text
UnderstandingJson(summary) == [json |-> TRUE, summary |-> summary]
SummaryText == [json |-> FALSE, summary |-> "summary"]

\* DocumentUnderstanding.model_validate_json accepts the text
ValidUnderstandingJson(doc) == doc.json

\* the dataclass constructor with its defaults
NewSession(session_id, conversation_id, name, document_summary, message_window, last_prompt_id) ==
    [session_id |-> session_id,
     conversation_id |-> conversation_id,
     name |-> name,
     document_summary |-> document_summary,
     message_window |-> message_window,
     created_at |-> DATETIME,
     last_accessed |-> DATETIME,
     window_size |-> DEFAULT_CONTEXT_WINDOW,
     branch_info |-> None,
     last_prompt_id |-> last_prompt_id,
     total_input_tokens |-> 0,
     total_output_tokens |-> 0,
     total_cost |-> 0]

BranchInfo(branch_name, parent_id, created_at, document_hash) ==
    [branch_name |-> branch_name, parent_id |-> parent_id,
     created_at |-> created_at, document_hash |-> document_hash]

\* datetime.isoformat / datetime.fromisoformat, on the type
isoformat(d) == ISOSTR
fromisoformat(s) == DATETIME

to_dict(self) ==
    [session_id |-> self.session_id,
     conversation_id |-> self.conversation_id,
     name |-> self.name,
     document_summary |-> self.document_summary,
     message_window |-> self.message_window,
     created_at |-> isoformat(self.created_at),
     last_accessed |-> isoformat(self.last_accessed),
     window_size |-> self.window_size,
     \* branch_info.__dict__: the fields as they are, created_at still a datetime
     branch_info |-> self.branch_info,
     last_prompt_id |-> self.last_prompt_id,
     total_input_tokens |-> self.total_input_tokens,
     total_output_tokens |-> self.total_output_tokens,
     total_cost |-> self.total_cost]

\* json.dump raises TypeError on a datetime value
JsonSerializable(d) ==
    /\ d.created_at # DATETIME
    /\ d.last_accessed # DATETIME
    /\ d.branch_info # None => d.branch_info.created_at # DATETIME

from_dict(data) ==
    LET session ==
            [session_id |-> data.session_id,
             conversation_id |-> data.conversation_id,
             name |-> data.name,
             document_summary |-> data.document_summary,
             message_window |-> data.message_window,
             created_at |-> fromisoformat(data.created_at),
             last_accessed |-> fromisoformat(data.last_accessed),
             window_size |-> data.window_size,
             \* BranchInfo(**data['branch_info']): the stored values, unconverted
             branch_info |-> data.branch_info,
             last_prompt_id |-> data.last_prompt_id,
             total_input_tokens |-> data.total_input_tokens,
             total_output_tokens |-> data.total_output_tokens,
             total_cost |-> data.total_cost]
    IN  IF session.last_prompt_id = 0 /\ session.message_window # <<>>
        THEN IF UserIds(session.message_window) = {}
             THEN [session EXCEPT !.last_prompt_id = 0]
             ELSE [session EXCEPT
                      !.last_prompt_id = SetMax(UserIds(session.message_window))]
        ELSE session

get_next_prompt_id(self) ==
    [session |-> [self EXCEPT !.last_prompt_id = @ + 1],
     id |-> FormatPromptId(self.last_prompt_id + 1)]


----------------------------------------------------------------------------
(* The file system and SessionManager.  A world w is the state an          *)
(* operation runs in: files (sessions_dir), dirs, processed, uuid, cur     *)
(* (the processor's current_session).  An operation yields the world it    *)
(* leaves, the exception that ended it ("none" when it returned) and its   *)
(* value.                                                                  *)

JsonFile(data) == [kind |-> "json", data |-> data]
\* what json.dump leaves behind when it raises part-way: not parseable
PartialFile == [kind |-> "partial"]

\* os.listdir: an arbitrary order; `front` is the entry it yields first
Listdir(files, front) ==
    LET rest == DOMAIN files \ {front}
        RECURSIVE asc(_)
        asc(S) == IF S = {} THEN <<>>
                  ELSE LET m == CHOOSE x \in S : \A y \in S : x <= y
                       IN  <<m>> \o asc(S \ {m})
    IN  (IF front \in DOMAIN files THEN <<front>> ELSE <<>>) \o asc(rest)

save_session(w, session) ==
    LET s == [session EXCEPT !.last_accessed = DATETIME]
        d == to_dict(s)
    IN  IF JsonSerializable(d)
        THEN [exc |-> "none", session |-> s,
              w |-> [w EXCEPT !.files = (s.session_id :> JsonFile(d)) @@ @]]
        ELSE [exc |-> "TypeError", session |-> s,
              w |-> [w EXCEPT !.files = (s.session_id :> PartialFile) @@ @]]

\* SessionManager.load_session
load_session(w, session_id) ==
    IF session_id \notin DOMAIN w.files THEN [exc |-> "none", session |-> None]
    ELSE IF w.files[session_id].kind # "json"
         THEN [exc |-> "JSONDecodeError", session |-> None]
         ELSE [exc |-> "none", session |-> from_dict(w.files[session_id].data)]

\* SessionManager.get_session_by_name over a directory listing
RECURSIVE scan_by_name(_, _, _)
scan_by_name(w, order, name) ==
    IF order = <<>> THEN [exc |-> "none", session |-> None]
    ELSE LET r == load_session(w, Head(order))
         IN  IF r.exc # "none" THEN r
             ELSE IF r.session # None /\ r.session.name = name THEN r
             ELSE scan_by_name(w, Tail(order), name)

get_session_by_name(w, name, front) == scan_by_name(w, Listdir(w.files, front), name)

\* ord(c) for the characters the names are made of
Ord == ("/" :> 47) @@ ("a" :> 97) @@ ("b" :> 98) @@ ("i" :> 105) @@ ("l" :> 108)
          @@ ("m" :> 109) @@ ("n" :> 110) @@ ("t" :> 116)

\* s < t for Python strings
RECURSIVE StrLess(_, _)
StrLess(s, t) ==
    IF t = <<>> THEN FALSE
    ELSE IF s = <<>> THEN TRUE
    ELSE IF Head(s) # Head(t) THEN Ord[Head(s)] < Ord[Head(t)]
    ELSE StrLess(Tail(s), Tail(t))

\* len([msg for msg in message_window if msg['role'] == 'user'])
UserCount(mw) == Cardinality({i \in 1..Len(mw) : mw[i].role = "user"})

\* the loop of list_sessions over a directory listing: unparseable files are
\* skipped, a name is taken the first time it is seen
RECURSIVE list_scan(_, _, _, _)
list_scan(files, order, sessions, seen_names) ==
    IF order = <<>> THEN sessions
    ELSE LET f == files[Head(order)]
         IN  IF f.kind = "json" /\ f.data.name \notin seen_names
             THEN list_scan(files, Tail(order),
                            Append(sessions, [name |-> f.data.name,
                                              message_count |-> UserCount(f.data.message_window)]),
                            seen_names \cup {f.data.name})
             ELSE list_scan(files, Tail(order), sessions, seen_names)

\* sorted(sessions, key=lambda x: x['name']): a stable insertion of x
RECURSIVE insert_by_name(_, _)
insert_by_name(sorted, x) ==
    IF sorted = <<>> THEN <<x>>
    ELSE IF StrLess(x.name, Head(sorted).name) THEN <<x>> \o sorted
    ELSE <<Head(sorted)>> \o insert_by_name(Tail(sorted), x)

RECURSIVE sorted_by_name(_)
sorted_by_name(sessions) ==
    IF sessions = <<>> THEN <<>>
    ELSE insert_by_name(sorted_by_name(SubSeq(sessions, 1, Len(sessions) - 1)),
                        sessions[Len(sessions)])

\* a list_sessions that returns the summaries in the order of the listing
list_sessions_unsorted(files, front) ==
    list_scan(files, Listdir(files, front), <<>>, {})

\* SessionManager.list_sessions
list_sessions(files, front) ==
    sorted_by_name(list_scan(files, Listdir(files, front), <<>>, {}))

\* the scan of Session.create_new: the first parseable file with that name, 0 if none
RECURSIVE scan_create_new(_, _, _)
scan_create_new(files, order, name) ==
    IF order = <<>> THEN 0
    ELSE LET f == files[Head(order)]
         IN  IF f.kind = "json" /\ f.data.name = name THEN Head(order)
             ELSE scan_create_new(files, Tail(order), name)

\* a create_new that does not look for a snapshot of that name
create_new_no_scan(w, name, document_summary, front, conv_id) ==
    [exc |-> "none",
     session |-> NewSession(w.uuid, conv_id, name, document_summary, <<>>, 0),
     w |-> [w EXCEPT !.uuid = @ + 1, !.dirs = @ \cup {name}]]

\* Session.create_new(name, document_summary).  No conversation_*.md file is
\* ever written by the core, so the fresh path starts from an empty history.
create_new(w, name, document_summary, front, conv_id) ==
    LET u == scan_create_new(w.files, Listdir(w.files, front), name)
    IN  IF u # 0
        THEN LET session == from_dict(w.files[u].data)
             IN  IF session.message_window # <<>>
                 THEN IF UserIds(session.message_window) = {}
                      THEN [exc |-> "ValueError", session |-> None, w |-> w]
                      ELSE [exc |-> "none", w |-> w,
                            session |-> [session EXCEPT !.last_prompt_id =
                                            SetMax(UserIds(session.message_window))]]
                 ELSE [exc |-> "none", session |-> session, w |-> w]
        ELSE [exc |-> "none",
              session |-> NewSession(w.uuid, conv_id, name, document_summary, <<>>, 0),
              w |-> [w EXCEPT !.uuid = @ + 1, !.dirs = @ \cup {name}]]

\* a create_branch that never copies the parent's history
set_up_branch_no_copy(cn, self, branch_name, include_history) ==
    IF cn.exc # "none" THEN cn
    ELSE [exc |-> "none", w |-> cn.w,
          session |-> [cn.session EXCEPT !.branch_info =
                          BranchInfo(branch_name, self.session_id, DATETIME, None)]]

\* a create_branch whose branch carries the parent's usage totals on
set_up_branch_inheriting(cn, self, branch_name, include_history) ==
    IF cn.exc # "none" THEN cn
    ELSE LET b == [cn.session EXCEPT
                      !.branch_info = BranchInfo(branch_name, self.session_id, DATETIME, None),
                      !.total_input_tokens = self.total_input_tokens,
                      !.total_output_tokens = self.total_output_tokens,
                      !.total_cost = self.total_cost]
         IN  [exc |-> "none", w |-> cn.w,
              session |-> IF include_history
                          THEN [b EXCEPT !.message_window = self.message_window]
                          ELSE b]

\* Session.create_branch from the return of create_new on: cn is what
\* Session.create_new(name=new_name, ...) gave
set_up_branch(cn, self, branch_name, include_history) ==
    IF cn.exc # "none" THEN cn
    ELSE LET b == [cn.session EXCEPT !.branch_info =
                      BranchInfo(branch_name, self.session_id, DATETIME, None)]
         IN  [exc |-> "none", w |-> cn.w,
              session |-> IF include_history
                          THEN [b EXCEPT !.message_window = self.message_window]
                          ELSE b]

\* a create_branch that validates the name only after create_new has run
create_branch_late_check(w, self, branch_name, include_history, front, conv_id) ==
    LET cn == create_new(w, self.name \o <<SLASH>> \o branch_name, self.document_summary,
                         front, conv_id)
    IN  IF HasSlash(branch_name)
        THEN [exc |-> "ValueError", session |-> None, w |-> cn.w]
        ELSE set_up_branch(cn, self, branch_name, include_history)

\* Session.create_branch
create_branch(w, self, branch_name, include_history, front, conv_id) ==
    IF HasSlash(branch_name)
    THEN [exc |-> "ValueError", session |-> None, w |-> w]
    ELSE set_up_branch(
             create_new(w, self.name \o <<SLASH>> \o branch_name, self.document_summary,
                        front, conv_id),
             self, branch_name, include_history)


----------------------------------------------------------------------------
(* retry_with_exponential_backoff, as the decorated methods see it: the    *)
(* endpoint's outcomes on successive passes of the loop are `run`.         *)

Transient == {"RateLimitError", "InternalServerError"}

\* a wrapper that takes every error for a transient one
is_retryable_any(e) == e # "ok"

\* isinstance(e, (RateLimitError, InternalServerError))
is_retryable(e) == e \in Transient

\* a wrapper without the re-raise on the last pass of the loop
is_last_retry_never(r, max_retries) == FALSE

\* retry == max_retries - 1
is_last_retry(r, max_retries) == r = max_retries - 1

\* a wrapper whose delay grows by one instead of doubling
next_delay_linear(d, max_delay) == Min(d + 1, max_delay)

\* delay = min(delay * 2, max_delay)
next_delay(d, max_delay) == Min(d * 2, max_delay)

\* sleep_time = delay + jitter, jitter = random.uniform(0, 0.1) * delay;
\* in thousandths of a time unit, the random factor in thousandths too
sleep_time(d, factor) == 1000 * d + factor * d

TransientRun(k) == [i \in 1..k |-> IF i % 2 = 1 THEN "RateLimitError" ELSE "InternalServerError"]

\* endpoint behaviours tried: a response at once with the smaller usage
\* block, a response with the larger one after as many transient failures
\* as the wrapper survives, a fatal error after a transient one, and
\* transient failures for as long as the wrapper asks
NoUsage == <<0, 0>>

Endpoints ==
    {[run |-> <<"ok">>, usage |-> SmallUsage],
     [run |-> TransientRun(DEFAULT_MAX_RETRIES - 1) \o <<"ok">>, usage |-> LargeUsage],
     [run |-> TransientRun(1) \o <<"APIError">>, usage |-> NoUsage],
     [run |-> TransientRun(DEFAULT_MAX_RETRIES), usage |-> NoUsage]}

----------------------------------------------------------------------------
(* DocumentProcessor *)

\* a cost computed with the two prices exchanged
usage_cost_swapped(usage) == usage[1] * output_token_price + usage[2] * input_token_price

\* input_cost + output_cost of one response, in millionths
usage_cost(usage) == usage[1] * input_token_price + usage[2] * output_token_price

\* a _track_usage that updates the totals in memory and leaves the saving to
\* a later step
track_usage_unsaved(w, usage) ==
    IF w.cur = None THEN [exc |-> "AttributeError", w |-> w]
    ELSE [exc |-> "none",
          w |-> [w EXCEPT !.cur = [w.cur EXCEPT
                      !.total_input_tokens = @ + usage[1],
                      !.total_output_tokens = @ + usage[2],
                      !.total_cost = @ + usage_cost(usage)]]]

\* DocumentProcessor._track_usage
track_usage(w, usage) ==
    IF w.cur = None THEN [exc |-> "AttributeError", w |-> w]
    ELSE LET s == [w.cur EXCEPT
                      !.total_input_tokens = @ + usage[1],
                      !.total_output_tokens = @ + usage[2],
                      !.total_cost = @ + usage_cost(usage)]
             sv == save_session(w, s)
         IN  [exc |-> sv.exc, w |-> [sv.w EXCEPT !.cur = sv.session]]

\* self.current_session = Session.create_new(name, ...); save_session(...)
make_current(cn) ==
    IF cn.exc # "none" THEN [exc |-> cn.exc, w |-> cn.w]
    ELSE LET sv == save_session([cn.w EXCEPT !.cur = cn.session], cn.session)
         IN  [exc |-> sv.exc, w |-> [sv.w EXCEPT !.cur = sv.session]]

\* a processor whose new sessions go on counting where the session that was
\* current had got to
new_current_session_continuing(w, name, document_summary, front, conv_id) ==
    make_current(
        IF w.cur = None THEN create_new(w, name, document_summary, front, conv_id)
        ELSE [create_new(w, name, document_summary, front, conv_id) EXCEPT
                 !.session.last_prompt_id = Max(@, w.cur.last_prompt_id)])

new_current_session(w, name, document_summary, front, conv_id) ==
    make_current(create_new(w, name, document_summary, front, conv_id))

\* process_documents after self._track_usage(response.usage): the
\* understanding is written under processed-docs and the session created
store_understanding(tr, name, front, conv_id) ==
    IF tr.exc # "none" THEN tr
    ELSE new_current_session(
             [tr.w EXCEPT !.processed = @ \cup {name}, !.dirs = @ \cup {name}],
             name, UnderstandingJson("summary"), front, conv_id)

\* one run of the body of process_documents; `outcome` is the endpoint's
process_documents_body(w, name, outcome, usage, front, conv_id) ==
    IF name \in w.processed
    THEN new_current_session(w, name, UnderstandingJson("summary"), front, conv_id)
    ELSE IF outcome # "ok" THEN [exc |-> outcome, w |-> w]
    ELSE store_understanding(track_usage(w, usage), name, front, conv_id)

\* the wrapper around process_documents, as around ask_question
RECURSIVE process_documents_attempt(_, _, _, _, _, _, _)

process_documents_retry(a, name, run, usage, front, conv_id, r) ==
    IF a.exc = "none" THEN a
    ELSE IF ~is_retryable(a.exc) THEN a
    ELSE IF is_last_retry(r, DEFAULT_MAX_RETRIES) THEN a
    ELSE process_documents_attempt(a.w, name, run, usage, front, conv_id, r + 1)

process_documents_attempt(w, name, run, usage, front, conv_id, r) ==
    IF r >= DEFAULT_MAX_RETRIES THEN [exc |-> "ReturnedNone", w |-> w]
    ELSE process_documents_retry(
             process_documents_body(w, name, run[r + 1], usage, front, conv_id),
             name, run, usage, front, conv_id, r)

\* DocumentProcessor.process_documents, decorated
process_documents(w, name, run, usage, front, conv_id) ==
    process_documents_attempt(w, name, run, usage, front, conv_id, 0)

\* the messages array of ask_question: the history slice
history_messages(session) ==
    LET slice == SliceLast(session.message_window, session.window_size)
    IN  [i \in 1..Len(slice) |-> [role |-> slice[i].role, content |-> slice[i].content]]

Message(role, content, prompt_id) == [role |-> role, content |-> content, prompt_id |-> prompt_id]

\* a body that puts the question into the history before calling the endpoint
ask_question_body_question_first(w, question, outcome, usage, answer) ==
    IF w.cur = None THEN [exc |-> "ValueError", w |-> w, sent |-> <<>>]
    ELSE IF ~ValidUnderstandingJson(w.cur.document_summary)
    THEN [exc |-> "ValidationError", w |-> w, sent |-> <<>>]
    ELSE LET messages == history_messages(w.cur)
                             \o <<[role |-> "user", content |-> question]>>
             nx == get_next_prompt_id(w.cur)
             s1 == [w.cur EXCEPT !.message_window =
                       @ \o <<Message("user", question, nx.id)>>]
         IN  IF outcome # "ok"
             THEN [exc |-> outcome, w |-> [w EXCEPT !.cur = s1], sent |-> messages]
             ELSE LET tr == track_usage([w EXCEPT !.cur = s1], usage)
                  IN  IF tr.exc # "none"
                      THEN [exc |-> tr.exc, w |-> tr.w, sent |-> messages]
                      ELSE LET s  == [tr.w.cur EXCEPT
                                         !.last_prompt_id = @ + 1,
                                         !.message_window =
                                            @ \o <<Message("assistant", answer, nx.id)>>]
                               sv == save_session(tr.w, s)
                           IN  [exc |-> sv.exc, sent |-> messages,
                                w |-> [sv.w EXCEPT !.cur = sv.session]]

\* one run of the body of ask_question
ask_question_body(w, question, outcome, usage, answer) ==
    IF w.cur = None THEN [exc |-> "ValueError", w |-> w, sent |-> <<>>]
    ELSE IF ~ValidUnderstandingJson(w.cur.document_summary)
    THEN [exc |-> "ValidationError", w |-> w, sent |-> <<>>]
    ELSE LET messages == history_messages(w.cur)
                             \o <<[role |-> "user", content |-> question]>>
         IN  IF outcome # "ok" THEN [exc |-> outcome, w |-> w, sent |-> messages]
             ELSE LET tr == track_usage(w, usage)
                  IN  IF tr.exc # "none"
                      THEN [exc |-> tr.exc, w |-> tr.w, sent |-> messages]
                      ELSE LET nx == get_next_prompt_id(tr.w.cur)
                               s  == [nx.session EXCEPT !.message_window =
                                         @ \o <<Message("user", question, nx.id),
                                                Message("assistant", answer, nx.id)>>]
                               sv == save_session(tr.w, s)
                           IN  [exc |-> sv.exc, sent |-> messages,
                                w |-> [sv.w EXCEPT !.cur = sv.session]]

\* the wrapper around ask_question: pass r of the loop calls the method on
\* the state the passes before it left; run[r + 1] is what the endpoint
\* does when that pass reaches it
RECURSIVE ask_question_attempt(_, _, _, _, _, _)

\* the pass gave a: return it, raise it, or sleep and go round again
ask_question_retry(a, question, run, usage, answer, r) ==
    IF a.exc = "none" THEN a
    ELSE IF ~is_retryable(a.exc) THEN a
    ELSE IF is_last_retry(r, DEFAULT_MAX_RETRIES) THEN a
    ELSE ask_question_attempt(a.w, question, run, usage, answer, r + 1)

\* a wrapper each pass of which takes a prompt id before it calls the method
ask_question_attempt_counting(w, question, run, usage, answer, r) ==
    IF r >= DEFAULT_MAX_RETRIES THEN [exc |-> "ReturnedNone", w |-> w, sent |-> <<>>]
    ELSE ask_question_retry(
             ask_question_body(
                 IF w.cur = None THEN w
                 ELSE [w EXCEPT !.cur = get_next_prompt_id(w.cur).session],
                 question, run[r + 1], usage, answer),
             question, run, usage, answer, r)

ask_question_attempt(w, question, run, usage, answer, r) ==
    IF r >= DEFAULT_MAX_RETRIES THEN [exc |-> "ReturnedNone", w |-> w, sent |-> <<>>]
    ELSE ask_question_retry(ask_question_body(w, question, run[r + 1], usage, answer),
                            question, run, usage, answer, r)

\* DocumentProcessor.ask_question, decorated
ask_question(w, question, run, usage, answer) ==
    ask_question_attempt(w, question, run, usage, answer, 0)

\* DocumentProcessor.load_session
processor_load_session(w, session_id) ==
    LET r == load_session(w, session_id)
    IN  IF r.exc # "none" THEN [exc |-> r.exc, w |-> w]
        ELSE IF r.session = None THEN [exc |-> "ValueError", w |-> w]
        ELSE [exc |-> "none", w |-> [w EXCEPT !.cur = r.session]]

\* create_conversation after process_documents returned or raised (pd)
create_conversation_session(pd, name, front, conv_id) ==
    IF pd.exc # "none" THEN pd
    ELSE new_current_session(pd.w, name, SummaryText, front, conv_id)

create_conversation(w, name, run, usage, front, conv_id) ==
    LET found == get_session_by_name(w, name, front)
    IN  IF found.exc # "none" THEN [exc |-> found.exc, w |-> w]
        ELSE IF found.session # None THEN [exc |-> "ValueError", w |-> w]
        ELSE create_conversation_session(
                 process_documents(w, name, run, usage, front, conv_id),
                 name, front, conv_id)

\* switch_conversation after process_documents returned or raised (pd)
switch_conversation_session(pd, name, front, conv_id) ==
    IF pd.exc # "none" THEN pd
    ELSE IF pd.w.cur = None
    THEN new_current_session(pd.w, name, SummaryText, front, conv_id)
    ELSE pd

switch_conversation(w, name, run, usage, front, conv_id) ==
    LET found == get_session_by_name(w, name, front)
    IN  IF found.exc # "none" THEN [exc |-> found.exc, w |-> w]
        ELSE IF found.session = None
        THEN switch_conversation_session(
                 process_documents(w, name, run, usage, front, conv_id),
                 name, front, conv_id)
        ELSE [exc |-> "none", w |-> [w EXCEPT !.cur = found.session]]

\* reload_documents after process_documents returned or raised (pd)
reload_session(pd, window) ==
    IF pd.exc # "none" THEN pd
    ELSE LET sv == save_session(pd.w, [pd.w.cur EXCEPT
                                          !.document_summary = SummaryText,
                                          !.message_window = SliceLast(@, window)])
         IN  [exc |-> sv.exc, w |-> [sv.w EXCEPT !.cur = sv.session]]

reload_documents(w, context_window, run, usage, front, conv_id) ==
    IF w.cur = None THEN [exc |-> "ValueError", w |-> w]
    ELSE IF w.cur.name \notin w.dirs THEN [exc |-> "ValueError", w |-> w]
    ELSE reload_session(
             process_documents(w, w.cur.name, run, usage, front, conv_id),
             IF context_window # 0 THEN context_window ELSE DEFAULT_CONTEXT_WINDOW)

\* DocumentProcessor.create_branch
\* DocumentProcessor.create_branch after Session.create_branch returned or
\* raised (cb): save_session(new_session); self.current_session = new_session
save_branch(cb) ==
    IF cb.exc # "none" THEN [exc |-> cb.exc, w |-> cb.w, new_session |-> None]
    ELSE LET sv == save_session(cb.w, cb.session)
         IN  IF sv.exc # "none"
             THEN [exc |-> sv.exc, w |-> sv.w, new_session |-> sv.session]
             ELSE [exc |-> "none", w |-> [sv.w EXCEPT !.cur = sv.session],
                   new_session |-> sv.session]

processor_create_branch(w, branch_name, include_history, front, conv_id) ==
    IF w.cur = None THEN [exc |-> "ValueError", w |-> w, new_session |-> None]
    ELSE save_branch(create_branch(w, w.cur, branch_name, include_history, front, conv_id))

\* a /ld that sets the window in memory only
set_window_unsaved(w, window) ==
    IF w.cur = None THEN [exc |-> "AttributeError", w |-> w]
    ELSE [exc |-> "none", w |-> [w EXCEPT !.cur = [w.cur EXCEPT !.window_size = window * 2]]]

\* a /ld that also cuts the stored history down to the new window
set_window_truncating(w, window) ==
    IF w.cur = None THEN [exc |-> "AttributeError", w |-> w]
    ELSE LET s == [w.cur EXCEPT !.window_size = window * 2,
                                !.message_window = SliceLast(@, window * 2)]
             sv == save_session(w, s)
         IN  [exc |-> sv.exc, w |-> [sv.w EXCEPT !.cur = sv.session]]

\* the /ld command of the main loop
set_window(w, window) ==
    IF w.cur = None THEN [exc |-> "AttributeError", w |-> w]
    ELSE LET s == [w.cur EXCEPT !.window_size = window * 2]
             sv == save_session(w, s)
         IN  [exc |-> sv.exc, w |-> [sv.w EXCEPT !.cur = sv.session]]


----------------------------------------------------------------------------
(* The session core as a state machine: one action per call made on the    *)
(* processor by the main loop or a script.                                 *)

World == [files |-> sessions_dir, dirs |-> name_dirs, processed |-> processed_docs,
          uuid |-> next_uuid, cur |-> current_session]

TokenCap == 100 * MaxTokenUnits

\* tokens charged to the sessions stored in files
RECURSIVE StoredTokens(_, _)
StoredTokens(files, ids) ==
    IF ids = {} THEN 0
    ELSE LET u == CHOOSE x \in ids : TRUE
         IN  (IF files[u].kind = "json" THEN files[u].data.total_input_tokens ELSE 0)
                 + StoredTokens(files, ids \ {u})

\* the bounds of the exploration: fresh uuids and the tokens spent
Bounded(w) ==
    /\ w.uuid <= MaxUuid + 1
    /\ w.cur # None => w.cur.total_input_tokens <= TokenCap
    /\ StoredTokens(w.files, DOMAIN w.files) <= TokenCap

Outcome(op, arg, exc, sent, new_session) ==
    [op |-> op, arg |-> arg, exc |-> exc, sent |-> sent, new_session |-> new_session]

Commit(w, res) ==
    /\ Bounded(w)
    /\ sessions_dir' = w.files
    /\ name_dirs' = w.dirs
    /\ processed_docs' = w.processed
    /\ next_uuid' = w.uuid
    /\ current_session' = w.cur
    /\ result' = res
    /\ UNCHANGED retryVars
    /\ UNCHANGED <<actors, ask>>

Least(S) == CHOOSE x \in S : \A y \in S : x <= y

\* os.listdir orders tried.  A scan for `name` is decided by which of the
\* files that can end it comes first: a snapshot of that name, or (for
\* get_session_by_name, which does not skip it) an unparseable file.
Named(name) ==
    {u \in DOMAIN sessions_dir :
        sessions_dir[u].kind = "json" /\ sessions_dir[u].data.name = name}

Unparseable == {u \in DOMAIN sessions_dir : sessions_dir[u].kind = "partial"}

\* for the scan of Session.create_new
FrontsCreateNew(name) ==
    IF Cardinality(Named(name)) > 1 THEN Named(name)
    ELSE IF sessions_dir = <<>> THEN {0}
    ELSE {Least(DOMAIN sessions_dir)}

\* for the scan of get_session_by_name
FrontsByName(name) ==
    IF sessions_dir = <<>> THEN {0}
    ELSE {Least(DOMAIN sessions_dir)} \cup Named(name)
            \cup (IF Unparseable = {} THEN {} ELSE {Least(Unparseable)})

\* process_documents reaches the endpoint only without a cached understanding
NoCall == [run |-> <<"ok">>, usage |-> NoUsage]
EndpointsFor(name) == IF name \in processed_docs THEN {NoCall} ELSE Endpoints

\* the decorator as the processor's methods use it: @retry_with_exponential_backoff()
DefaultConfig ==
    [max_retries |-> DEFAULT_MAX_RETRIES, initial_delay |-> DEFAULT_INITIAL_DELAY,
     max_delay |-> DEFAULT_MAX_DELAY]

RetryIdle ==
    /\ rcfg = DefaultConfig
    /\ rstate = "Idle"
    /\ retry = 0
    /\ delay = 0
    /\ attempts = <<>>
    /\ sleeps = <<>>
    /\ raised = None

\* no ask_question call is in progress
\* (entry is the session as the call found it)
NoAsk == [pc |-> "idle", retry |-> 0, entry |-> None, question |-> None,
          messages |-> <<>>, response |-> None, prompt_id |-> None, exc |-> "none"]

\* no process is creating a session, no call is in progress
NoActors == actors = <<>> /\ ask = NoAsk

\* DocumentProcessor.__init__ on an empty sessions directory, on a fresh
\* installation or with the understanding of "main" already under processed-docs
Init ==
    /\ sessions_dir = <<>>
    /\ name_dirs = {}
    /\ processed_docs \in {{}, {MAIN}}
    /\ next_uuid = 1
    /\ current_session = None
    /\ result = Outcome("init", <<>>, "none", <<>>, None)
    /\ RetryIdle
    /\ NoActors

ProcessDocuments ==
    \E name \in ConvNames, conv_id \in ConvIds :
     \E front \in FrontsCreateNew(name) :
      \E ep \in EndpointsFor(name) :
        \E r \in {process_documents(World, name, ep.run, ep.usage, front, conv_id)} :
            Commit(r.w, Outcome("process_documents", <<ep.usage>>, r.exc, <<>>, None))

CreateConversation ==
    \E name \in ConvNames, conv_id \in ConvIds :
     \E front \in FrontsByName(name) :
      \E ep \in EndpointsFor(name) :
        \E r \in {create_conversation(World, name, ep.run, ep.usage, front, conv_id)} :
            Commit(r.w, Outcome("create_conversation", <<ep.usage>>, r.exc, <<>>, None))

SwitchConversation ==
    \E name \in ConvNames, conv_id \in ConvIds :
     \E front \in FrontsByName(name) :
      \E ep \in EndpointsFor(name) :
        \E r \in {switch_conversation(World, name, ep.run, ep.usage, front, conv_id)} :
            Commit(r.w, Outcome("switch_conversation", <<ep.usage>>, r.exc, <<>>, None))

\* ask_question reaches the endpoint only with a session whose
\* document_summary it can parse
AskEndpoints ==
    IF current_session # None /\ ValidUnderstandingJson(current_session.document_summary)
    THEN Endpoints
    ELSE {NoCall}

AskQuestion ==
    \E question \in Questions, ep \in AskEndpoints, answer \in Answers :
        \E r \in {ask_question(World, question, ep.run, ep.usage, answer)} :
            Commit(r.w, Outcome("ask_question", <<ep.usage>>, r.exc, r.sent, None))

SetWindow ==
    \E window \in LdArgs :
        \E r \in {set_window(World, window)} :
            Commit(r.w, Outcome("ld", <<>>, r.exc, <<>>, None))

ReloadDocuments ==
    \E context_window \in ReloadArgs, conv_id \in ConvIds :
      \E front \in (IF current_session = None THEN {0}
                    ELSE FrontsCreateNew(current_session.name)),
         ep \in (IF current_session = None THEN {NoCall}
                 ELSE EndpointsFor(current_session.name)) :
        \E r \in {reload_documents(World, context_window, ep.run, ep.usage, front, conv_id)} :
            Commit(r.w, Outcome("reload_documents", <<ep.usage>>, r.exc, <<>>, None))

CreateBranch ==
    \E branch_name \in BranchNames, include_history \in BOOLEAN, conv_id \in ConvIds :
      \E front \in (IF current_session = None THEN {0}
                    ELSE FrontsCreateNew(current_session.name \o <<SLASH>> \o branch_name)) :
        \E r \in {processor_create_branch(World, branch_name, include_history, front, conv_id)} :
            Commit(r.w, Outcome("create_branch", <<branch_name, include_history>>, r.exc,
                                <<>>, r.new_session))

LoadSession ==
    \E session_id \in 1..MaxUuid :
        \E r \in {processor_load_session(World, session_id)} :
            Commit(r.w, Outcome("load_session", <<>>, r.exc, <<>>, None))

\* list_sessions(), under any order of the directory listing; `sent` holds
\* the list it returned
ListSessions ==
    \E front \in (IF sessions_dir = <<>> THEN {0} ELSE DOMAIN sessions_dir) :
        Commit(World, Outcome("list_sessions", <<>>, "none",
                              list_sessions(sessions_dir, front), None))

Next ==
    \/ ProcessDocuments
    \/ CreateConversation
    \/ SwitchConversation
    \/ AskQuestion
    \/ SetWindow
    \/ ReloadDocuments
    \/ CreateBranch
    \/ LoadSession
    \/ ListSessions

Spec == Init /\ [][Next]_vars


----------------------------------------------------------------------------
(* retry_with_exponential_backoff, step by step, around a call whose       *)
(* outcome the environment chooses.  Times are in thousandths of a         *)
(* time unit; the jitter factor random.uniform(0, 0.1) is drawn from       *)
(* JitterFactors, in thousandths.                                          *)

JitterFactors == {0, 50, 100}
CallOutcomes  == {"ok", "RateLimitError", "InternalServerError", "APIError"}

\* max_delay values the decorator is configured with
MaxDelays == {1, 2, DEFAULT_MAX_DELAY}

RetryConfigs ==
    [max_retries : 0..MaxRetriesCfg, initial_delay : 1..MaxInitDelay, max_delay : MaxDelays]

\* wrapper(*args, **kwargs) is entered: delay = initial_delay, the loop starts
Invoke ==
    /\ rstate = "Idle"
    /\ rstate' = "Attempting"
    /\ retry' = 0
    /\ delay' = rcfg.initial_delay
    /\ UNCHANGED <<rcfg, attempts, sleeps, raised>>
    /\ UNCHANGED coreVars
    /\ UNCHANGED <<actors, ask>>

\* one pass of the loop body: func is called and returns or raises
Attempt ==
    /\ rstate = "Attempting"
    /\ retry < rcfg.max_retries
    /\ \E e \in CallOutcomes, jitter \in JitterFactors :
        /\ attempts' = Append(attempts, e)
        /\ IF e = "ok"
           THEN /\ rstate' = "Succeeded"
                /\ UNCHANGED <<sleeps, raised>>
           ELSE IF ~is_retryable(e) \/ is_last_retry(retry, rcfg.max_retries)
           THEN /\ rstate' = "Raised"
                /\ raised' = [kind |-> e, attempt |-> Len(attempts) + 1]
                /\ UNCHANGED sleeps
           ELSE /\ rstate' = "Backoff"
                /\ sleeps' = Append(sleeps, [base |-> delay,
                                             sleep_time |-> sleep_time(delay, jitter)])
                /\ UNCHANGED raised
    /\ UNCHANGED <<rcfg, retry, delay>>
    /\ UNCHANGED coreVars
    /\ UNCHANGED <<actors, ask>>

\* time.sleep returns: delay = min(delay * 2, max_delay), next pass
Wake ==
    /\ rstate = "Backoff"
    /\ rstate' = "Attempting"
    /\ delay' = next_delay(delay, rcfg.max_delay)
    /\ retry' = retry + 1
    /\ UNCHANGED <<rcfg, attempts, sleeps, raised>>
    /\ UNCHANGED coreVars
    /\ UNCHANGED <<actors, ask>>

\* range(max_retries) is exhausted: return None
ReturnNone ==
    /\ rstate = "Attempting"
    /\ retry >= rcfg.max_retries
    /\ rstate' = "ReturnedNone"
    /\ UNCHANGED <<rcfg, retry, delay, attempts, sleeps, raised>>
    /\ UNCHANGED coreVars
    /\ UNCHANGED <<actors, ask>>

InitRetry ==
    /\ sessions_dir = <<>>
    /\ name_dirs = {}
    /\ processed_docs = {}
    /\ next_uuid = 1
    /\ current_session = None
    /\ result = Outcome("init", <<>>, "none", <<>>, None)
    /\ rcfg \in RetryConfigs
    /\ rstate = "Idle"
    /\ retry = 0
    /\ delay = 0
    /\ attempts = <<>>
    /\ sleeps = <<>>
    /\ raised = None
    /\ NoActors

NextRetry ==
    \/ Invoke
    \/ Attempt
    \/ Wake
    \/ ReturnNone

SpecRetry == InitRetry /\ [][NextRetry]_vars

\* the same machine when the call made by a pass comes back (it returns or
\* raises), every time.sleep comes back, and the wrapper runs on
SpecRetryFair ==
    /\ SpecRetry
    /\ WF_vars(Attempt)
    /\ WF_vars(Wake)
    /\ WF_vars(ReturnNone)

----------------------------------------------------------------------------
(* Session.get_next_prompt_id called again and again on one session.  The  *)
(* session is one made by Session.create_new(name, summary, last_prompt_id) *)
(* for a name without a snapshot; last_prompt_id is the caller's.           *)

\* last_prompt_id values the session starts from: each a few calls short of
\* one more digit
PromptIdStarts == {0, 95, 995, 9995, 99995}

InitPromptId ==
    /\ sessions_dir = <<>>
    /\ name_dirs = {MAIN}
    /\ processed_docs = {}
    /\ next_uuid = 2
    /\ current_session \in
          {NewSession(1, conv_id, MAIN, SummaryText, <<>>, n) :
              conv_id \in ConvIds, n \in PromptIdStarts}
    /\ result = Outcome("create_new", <<>>, "none", <<>>, None)
    /\ RetryIdle
    /\ NoActors

\* prompt_id = self.current_session.get_next_prompt_id()
GetNextPromptId ==
    /\ \E n \in PromptIdStarts :
          /\ n <= current_session.last_prompt_id
          /\ current_session.last_prompt_id < n + MaxCalls
    /\ current_session' = get_next_prompt_id(current_session).session
    /\ result' = Outcome("get_next_prompt_id", <<get_next_prompt_id(current_session).id>>,
                         "none", <<>>, None)
    /\ UNCHANGED <<sessions_dir, name_dirs, processed_docs, next_uuid>>
    /\ UNCHANGED retryVars
    /\ UNCHANGED <<actors, ask>>

NextPromptId == GetNextPromptId

SpecPromptId == InitPromptId /\ [][NextPromptId]_vars

----------------------------------------------------------------------------
(* Several processes on one sessions directory, each running               *)
(* Session.create_new(name, summary) and then save_session on what it got. *)
(* Nothing in the code locks the directory, so the steps of one process    *)
(* interleave with those of the others: the scan and construction of       *)
(* create_new, the open(path, 'w') of save_session, and its json.dump.     *)

Actors == 1..MaxActors

ActorAt(pc, name, session) == [pc |-> pc, name |-> name, session |-> session]

InitConcurrent ==
    /\ sessions_dir = <<>>
    /\ name_dirs = {}
    /\ processed_docs = {}
    /\ next_uuid = 1
    /\ current_session = None
    /\ result = Outcome("init", <<>>, "none", <<>>, None)
    /\ RetryIdle
    /\ actors = [a \in Actors |-> ActorAt("start", <<>>, None)]
    /\ ask = NoAsk

\* session = Session.create_new(name, document_summary)
ActorCreateNew(a) ==
    /\ actors[a].pc = "start"
    /\ \E name \in ConvNames, conv_id \in ConvIds :
        \E front \in FrontsCreateNew(name) :
         \E cn \in {create_new(World, name, SummaryText, front, conv_id)} :
           /\ actors' = [actors EXCEPT ![a] =
                            IF cn.exc = "none" THEN ActorAt("created", name, cn.session)
                            ELSE ActorAt("failed", name, None)]
           /\ cn.w.uuid <= MaxUuid + 1
           /\ next_uuid' = cn.w.uuid
           /\ name_dirs' = cn.w.dirs
    /\ UNCHANGED <<sessions_dir, processed_docs, current_session, result>>
    /\ UNCHANGED <<retryVars, ask>>

\* save_session: with open(session_path, 'w') as f
ActorOpen(a) ==
    /\ actors[a].pc = "created"
    /\ sessions_dir' = (actors[a].session.session_id :> PartialFile) @@ sessions_dir
    /\ actors' = [actors EXCEPT ![a].pc = "writing"]
    /\ UNCHANGED <<name_dirs, processed_docs, next_uuid, current_session, result>>
    /\ UNCHANGED <<retryVars, ask>>

\* save_session: json.dump(session.to_dict(), f, indent=2)
ActorDump(a) ==
    /\ actors[a].pc = "writing"
    /\ \E r \in {save_session(World, actors[a].session)} :
          /\ sessions_dir' = r.w.files
          /\ actors' = [actors EXCEPT ![a] =
                           ActorAt(IF r.exc = "none" THEN "saved" ELSE "failed",
                                   actors[a].name, r.session)]
    /\ UNCHANGED <<name_dirs, processed_docs, next_uuid, current_session, result>>
    /\ UNCHANGED <<retryVars, ask>>

\* the process is back in its loop and may create a conversation again
ActorReturn(a) ==
    /\ actors[a].pc = "saved"
    /\ actors' = [actors EXCEPT ![a] = ActorAt("start", <<>>, None)]
    /\ UNCHANGED coreVars
    /\ UNCHANGED <<retryVars, ask>>

NextConcurrent ==
    \E a \in Actors :
        \/ ActorCreateNew(a)
        \/ ActorOpen(a)
        \/ ActorDump(a)
        \/ ActorReturn(a)

SpecConcurrent == InitConcurrent /\ [][NextConcurrent]_vars

----------------------------------------------------------------------------
(* One ask_question call, statement by statement, with the passes of the   *)
(* retry wrapper around it.  The session it runs on is current and stored: *)
(* "main" made from its cached understanding, asked up to MaxPairs         *)
(* questions, its window left alone or set by /ld.                         *)

\* the world after the first process_documents("main") of an installation
\* that has the understanding cached
MainWorld(conv_id) ==
    process_documents([files |-> <<>>, dirs |-> {}, processed |-> {MAIN}, uuid |-> 1,
                       cur |-> None],
                      MAIN, NoCall.run, NoCall.usage, 0, conv_id).w

\* ... and after k questions answered at once
RECURSIVE AskedWorld(_, _)
AskedWorld(conv_id, k) ==
    IF k = 0 THEN MainWorld(conv_id)
    ELSE ask_question(AskedWorld(conv_id, k - 1), "q1", <<"ok">>, SmallUsage, "a1").w

AskStarts ==
    {AskedWorld(conv_id, k) : conv_id \in ConvIds, k \in 0..MaxPairs}
        \cup {set_window(AskedWorld(conv_id, k), window).w :
                  conv_id \in ConvIds, k \in 0..MaxPairs, window \in LdArgs}

\* the same directories under a processor that has just been constructed:
\* no session is current
FreshStarts == {[w EXCEPT !.cur = None] : w \in AskStarts}

InitAsk ==
    /\ \E w \in AskStarts \cup FreshStarts :
          /\ sessions_dir = w.files
          /\ name_dirs = w.dirs
          /\ processed_docs = w.processed
          /\ next_uuid = w.uuid
          /\ current_session = w.cur
    /\ result = Outcome("init", <<>>, "none", <<>>, None)
    /\ RetryIdle
    /\ actors = <<>>
    /\ ask = NoAsk

AskRest == <<name_dirs, processed_docs, next_uuid, result, rcfg, rstate, retry, delay,
             attempts, sleeps, raised, actors>>

\* the method is entered and runs up to the endpoint call: the session is
\* there, its understanding parses, the messages array is built
AskBuild ==
    /\ ask.pc = "idle"
    /\ ask.retry < DEFAULT_MAX_RETRIES
    /\ \E question \in Questions :
          ask' = IF current_session = None
                 THEN [ask EXCEPT !.pc = "raised", !.exc = "ValueError"]
                 ELSE IF ~ValidUnderstandingJson(current_session.document_summary)
                 THEN [ask EXCEPT !.pc = "raised", !.exc = "ValidationError"]
                 ELSE [ask EXCEPT !.pc = "built", !.question = question,
                                  !.entry = current_session,
                                  !.messages = history_messages(current_session)
                                      \o <<[role |-> "user", content |-> question]>>]
    /\ UNCHANGED <<sessions_dir, current_session>>
    /\ UNCHANGED AskRest

\* response = self.anthropic.messages.create(...)
AskCall ==
    /\ ask.pc = "built"
    /\ \E e \in CallOutcomes, usage \in Usages, answer \in Answers :
          ask' = IF e = "ok"
                 THEN [ask EXCEPT !.pc = "answered",
                                  !.response = [usage |-> usage, text |-> answer]]
                 ELSE [ask EXCEPT !.pc = "raised", !.exc = e]
    /\ UNCHANGED <<sessions_dir, current_session>>
    /\ UNCHANGED AskRest

\* self._track_usage(response)
AskTrackUsage ==
    /\ ask.pc = "answered"
    /\ \E tr \in {track_usage(World, ask.response.usage)} :
          /\ sessions_dir' = tr.w.files
          /\ current_session' = tr.w.cur
          /\ ask' = IF tr.exc = "none" THEN [ask EXCEPT !.pc = "tracked"]
                     ELSE [ask EXCEPT !.pc = "raised", !.exc = tr.exc]
    /\ UNCHANGED AskRest

\* a call that takes its prompt id before it reaches the endpoint
AskAllocateEarly ==
    /\ ask.pc = "built"
    /\ ask.prompt_id = None
    /\ current_session' = get_next_prompt_id(current_session).session
    /\ ask' = [ask EXCEPT !.prompt_id = get_next_prompt_id(current_session).id]
    /\ UNCHANGED sessions_dir
    /\ UNCHANGED AskRest

\* prompt_id = self.current_session.get_next_prompt_id()
AskAllocate ==
    /\ ask.pc = "tracked"
    /\ current_session' = get_next_prompt_id(current_session).session
    /\ ask' = [ask EXCEPT !.pc = "allocated",
                          !.prompt_id = get_next_prompt_id(current_session).id]
    /\ UNCHANGED sessions_dir
    /\ UNCHANGED AskRest

\* the two message_window.append calls
AskAppend ==
    /\ ask.pc = "allocated"
    /\ current_session' = [current_session EXCEPT !.message_window =
           @ \o <<Message("user", ask.question, ask.prompt_id),
                  Message("assistant", ask.response.text, ask.prompt_id)>>]
    /\ ask' = [ask EXCEPT !.pc = "appended"]
    /\ UNCHANGED sessions_dir
    /\ UNCHANGED AskRest

\* self.session_manager.save_session(self.current_session); return
AskSave ==
    /\ ask.pc = "appended"
    /\ \E sv \in {save_session(World, current_session)} :
          /\ sessions_dir' = sv.w.files
          /\ current_session' = sv.session
          /\ ask' = IF sv.exc = "none" THEN [ask EXCEPT !.pc = "done"]
                     ELSE [ask EXCEPT !.pc = "raised", !.exc = sv.exc]
    /\ UNCHANGED AskRest

\* the wrapper caught a transient error before its last pass: it sleeps and
\* calls the method again
AskRetry ==
    /\ ask.pc = "raised"
    /\ is_retryable(ask.exc)
    /\ ~is_last_retry(ask.retry, DEFAULT_MAX_RETRIES)
    /\ ask' = [NoAsk EXCEPT !.retry = ask.retry + 1]
    /\ UNCHANGED <<sessions_dir, current_session>>
    /\ UNCHANGED AskRest

NextAsk ==
    \/ AskBuild
    \/ AskCall
    \/ AskTrackUsage
    \/ AskAllocate
    \/ AskAppend
    \/ AskSave
    \/ AskRetry

SpecAsk == InitAsk /\ [][NextAsk]_vars

----------------------------------------------------------------------------
(* Several processes on one session: each loads the snapshot of "main" and *)
(* completes one ask_question on its copy.  The steps of a process that    *)
(* touch the directory are load_session, the save_session inside           *)
(* _track_usage and the save_session that ends ask_question; between them  *)
(* the process changes its own copy only.                                  *)

\* the id under which "main" is stored in the worlds of AskStarts
SharedId == 1

InitShared ==
    /\ \E w \in AskStarts :
          /\ sessions_dir = w.files
          /\ name_dirs = w.dirs
          /\ processed_docs = w.processed
          /\ next_uuid = w.uuid
    /\ current_session = None
    /\ result = Outcome("init", <<>>, "none", <<>>, None)
    /\ RetryIdle
    /\ actors = [a \in Actors |-> ActorAt("start", MAIN, None)]
    /\ ask = NoAsk

SharedRest == <<name_dirs, processed_docs, next_uuid, current_session, result, rcfg,
                rstate, retry, delay, attempts, sleeps, raised, ask>>

\* self.current_session = self.session_manager.load_session(session_id)
SharedLoad(a) ==
    /\ actors[a].pc = "start"
    /\ \E r \in {load_session(World, SharedId)} :
          actors' = [actors EXCEPT ![a] =
                        IF r.exc = "none" /\ r.session # None
                        THEN ActorAt("loaded", MAIN, r.session)
                        ELSE ActorAt("failed", MAIN, None)]
    /\ UNCHANGED sessions_dir
    /\ UNCHANGED SharedRest

\* ask_question up to and with self._track_usage(response)
SharedTrack(a) ==
    /\ actors[a].pc = "loaded"
    /\ \E usage \in Usages :
        \E tr \in {track_usage([World EXCEPT !.cur = actors[a].session], usage)} :
          /\ sessions_dir' = tr.w.files
          /\ actors' = [actors EXCEPT ![a] =
                           ActorAt(IF tr.exc = "none" THEN "tracked" ELSE "failed",
                                   MAIN, tr.w.cur)]
    /\ UNCHANGED SharedRest

\* get_next_prompt_id and the two message_window.append calls
SharedAppend(a) ==
    /\ actors[a].pc = "tracked"
    /\ \E question \in Questions, answer \in Answers :
        \E nx \in {get_next_prompt_id(actors[a].session)} :
          actors' = [actors EXCEPT ![a] =
                        ActorAt("appended", MAIN,
                                [nx.session EXCEPT !.message_window =
                                    @ \o <<Message("user", question, nx.id),
                                           Message("assistant", answer, nx.id)>>])]
    /\ UNCHANGED sessions_dir
    /\ UNCHANGED SharedRest

\* a save that reads the snapshot again and adds the process's pair to what
\* it finds there
SharedSaveMerging(a) ==
    /\ actors[a].pc = "appended"
    /\ \E sv \in {save_session(World,
                       [actors[a].session EXCEPT !.message_window =
                           sessions_dir[SharedId].data.message_window
                               \o SliceLast(actors[a].session.message_window, 2)])} :
          /\ sessions_dir' = sv.w.files
          /\ actors' = [actors EXCEPT ![a] =
                           ActorAt(IF sv.exc = "none" THEN "saved" ELSE "failed",
                                   MAIN, actors[a].session)]
    /\ UNCHANGED SharedRest

\* self.session_manager.save_session(self.current_session)
SharedSave(a) ==
    /\ actors[a].pc = "appended"
    /\ \E sv \in {save_session(World, actors[a].session)} :
          /\ sessions_dir' = sv.w.files
          /\ actors' = [actors EXCEPT ![a] =
                           ActorAt(IF sv.exc = "none" THEN "saved" ELSE "failed",
                                   MAIN, sv.session)]
    /\ UNCHANGED SharedRest

NextShared ==
    \E a \in Actors :
        \/ SharedLoad(a)
        \/ SharedTrack(a)
        \/ SharedAppend(a)
        \/ SharedSave(a)

SpecShared == InitShared /\ [][NextShared]_vars

----------------------------------------------------------------------------
(* Properties of the session core, checked under Spec *)

StrictlyIncreasing(ids) == \A i, j \in 1..Len(ids) : i < j => ids[i] < ids[j]

\* the id the next question/answer pair of s would carry is not in its history
NextIdFresh(s) == ParseInt(get_next_prompt_id(s).id) \notin UserIds(s.message_window)

StoredIncreasing ==
    \A u \in DOMAIN sessions_dir :
        sessions_dir[u].kind = "json" =>
            StrictlyIncreasing(UserIdSeq(sessions_dir[u].data.message_window))

CurrentIncreasing ==
    current_session # None =>
        /\ StrictlyIncreasing(UserIdSeq(current_session.message_window))
        /\ NextIdFresh(current_session)

\* C1: in every session (stored, current, or just returned by create_branch)
\* the prompt ids of the user messages are strictly increasing in stored
\* order, and the next pair of a branch that copied its parent's history gets
\* an id that is not already in that history.
C1_PromptIdsStrictlyIncreasing ==
    /\ StoredIncreasing
    /\ CurrentIncreasing
    /\ result.new_session # None =>
          /\ StrictlyIncreasing(UserIdSeq(result.new_session.message_window))
          /\ NextIdFresh(result.new_session)

\* C2: the history part of the context sent by ask_question (all messages
\* but the new question) is the last 2*min(N, W) stored messages, N the
\* number of stored pairs before the question and W the session's
\* window_size, in stored order with their roles.
C2_ContextIsMinPairs ==
    (result.op = "ask_question" /\ result.sent # <<>>) =>
        LET mw      == current_session.message_window
            stored  == IF result.exc = "none" THEN SubSeq(mw, 1, Len(mw) - 2) ELSE mw
            N       == Len(stored) \div 2
            W       == current_session.window_size
            history == SubSeq(result.sent, 1, Len(result.sent) - 1)
            want    == 2 * Min(N, W)
        IN  /\ Len(history) = want
            /\ \A i \in 1..want :
                  LET m == stored[Len(stored) - want + i]
                  IN  history[i] = [role |-> m.role, content |-> m.content]

IsPrefix(s, t) == Len(s) <= Len(t) /\ SubSeq(t, 1, Len(s)) = s

\* C3: no operation removes, replaces or reorders stored messages: every
\* stored snapshot is still there after the operation with the old
\* message_window as a prefix of the new one, and so is the history of the
\* session held in memory.
C3_AppendOnly ==
    [][ /\ \A u \in DOMAIN sessions_dir :
              sessions_dir[u].kind = "json" =>
                  /\ u \in DOMAIN sessions_dir'
                  /\ sessions_dir'[u].kind = "json"
                  /\ IsPrefix(sessions_dir[u].data.message_window,
                              sessions_dir'[u].data.message_window)
        /\ (/\ current_session # None
            /\ current_session' # None
            /\ current_session'.session_id = current_session.session_id) =>
                  IsPrefix(current_session.message_window,
                           current_session'.message_window)
      ]_vars

\* C7: create_branch(branch_name, include_history = true) on the current
\* session returns a session named parent.name + "/" + branch_name, with
\* branch_info.branch_name = branch_name, branch_info.parent_id the parent's
\* session_id, and a message_window equal element by element to the
\* parent's at the time of the call.
C7_BranchResult ==
    [][ (/\ result'.op = "create_branch"
         /\ result'.new_session # None
         /\ result'.arg[2]) =>
            LET parent      == current_session
                new_session == result'.new_session
                branch_name == result'.arg[1]
            IN  /\ new_session.name = parent.name \o <<SLASH>> \o branch_name
                /\ new_session.branch_info # None
                /\ new_session.branch_info.branch_name = branch_name
                /\ new_session.branch_info.parent_id = parent.session_id
                /\ Len(new_session.message_window) = Len(parent.message_window)
                /\ \A i \in 1..Len(parent.message_window) :
                      new_session.message_window[i] = parent.message_window[i]
      ]_vars

\* "main" with a stored pair was forked into "main/alt"
C7_Witness ==
    /\ result.op = "create_branch"
    /\ result.arg = <<ALT, TRUE>>
    /\ result.new_session # None
    /\ result.new_session.name = MAIN_ALT
    /\ result.new_session.message_window # <<>>

\* there is a readable snapshot under id u and its message_window is mw
StoresWindow(files, u, mw) ==
    /\ u \in DOMAIN files
    /\ files[u].kind = "json"
    /\ files[u].data.message_window = mw

C9_SlashRejected ==
    [][ (result'.op = "create_branch" /\ HasSlash(result'.arg[1])) =>
            /\ result'.exc = "ValueError"
            /\ result'.new_session = None
            /\ UNCHANGED <<sessions_dir, name_dirs, processed_docs, next_uuid,
                           current_session>>
      ]_vars

\* "a/b" was refused on a parent that holds a pair
C9_Witness ==
    /\ result.op = "create_branch"
    /\ result.arg[1] = A_SLASH_B
    /\ result.exc = "ValueError"
    /\ current_session # None
    /\ current_session.message_window # <<>>
    /\ sessions_dir # <<>>

\* load_session(s.session_id) returns a session equal to s in all fields but
\* the timestamps
RoundTrip(w, s) ==
    LET r == load_session(w, s.session_id)
    IN  /\ r.exc = "none"
        /\ r.session # None
        /\ r.session.session_id = s.session_id
        /\ r.session.conversation_id = s.conversation_id
        /\ r.session.name = s.name
        /\ r.session.document_summary = s.document_summary
        /\ r.session.message_window = s.message_window
        /\ r.session.window_size = s.window_size
        /\ r.session.branch_info = s.branch_info
        /\ r.session.last_prompt_id = s.last_prompt_id
        /\ r.session.total_input_tokens = s.total_input_tokens
        /\ r.session.total_output_tokens = s.total_output_tokens
        /\ r.session.total_cost = s.total_cost

CurrentRoundTrip ==
    (result.exc = "none" /\ current_session # None) => RoundTrip(World, current_session)

\* C10: every session handed to save_session is saved (the call completes)
\* and loads back equal: the current session after an operation that
\* returned, and the session create_branch made (branch_info not null).
C10_SaveLoadRoundTrip ==
    /\ CurrentRoundTrip
    /\ result.new_session # None =>
          /\ result.exc = "none"
          /\ RoundTrip(World, result.new_session)

\* the largest prompt id among the user messages, 0 when there is none (as
\* from_dict computes it)
MaxUserId(mw) == IF UserIds(mw) = {} THEN 0 ELSE SetMax(UserIds(mw))

\* cn, what create_new gave, is a session whose counter is the largest
\* prompt id among the user messages of the snapshot it was read from
RecoveredWithMaxId(files, cn) ==
    /\ cn.exc = "none"
    /\ cn.session # None
    /\ cn.session.session_id \in DOMAIN files
    /\ cn.session.last_prompt_id =
          MaxUserId(files[cn.session.session_id].data.message_window)

\* C11: for every name that has a persisted snapshot, and every order in
\* which the directory may be listed, create_new(name, ...) returns a
\* session whose last_prompt_id is the maximum prompt id among the user
\* messages stored in that snapshot.
C11_RecreateRecomputesCounter ==
    \A name \in ConvNames :
        Named(name) # {} =>
            \A front \in FrontsCreateNew(name), conv_id \in ConvIds :
                RecoveredWithMaxId(sessions_dir,
                    create_new(World, name, SummaryText, front, conv_id))


\* cn, what create_new(name, summary) gave in world w, is the snapshot stored
\* under that name when there is one, and a fresh session otherwise
RecoversOrCreates(w, name, summary, cn) ==
    /\ cn.exc = "none"
    /\ cn.session # None
    /\ cn.session.name = name
    /\ IF \E u \in DOMAIN w.files :
              w.files[u].kind = "json" /\ w.files[u].data.name = name
       THEN /\ cn.session.session_id \in DOMAIN w.files
            /\ w.files[cn.session.session_id].kind = "json"
            /\ LET data == w.files[cn.session.session_id].data
               IN  /\ data.name = name
                   /\ cn.session.conversation_id = data.conversation_id
                   /\ cn.session.message_window = data.message_window
                   /\ cn.session.document_summary = data.document_summary
                   /\ cn.session.total_input_tokens = data.total_input_tokens
                   /\ cn.session.total_output_tokens = data.total_output_tokens
                   /\ cn.session.total_cost = data.total_cost
            /\ cn.w.uuid = w.uuid
            /\ cn.w.files = w.files
       ELSE /\ cn.session.session_id \notin DOMAIN w.files
            /\ cn.session.document_summary = summary
            /\ cn.session.message_window = <<>>
            /\ cn.session.total_input_tokens = 0
            /\ cn.session.total_output_tokens = 0
            /\ cn.session.total_cost = 0
            /\ cn.session.branch_info = None
            /\ cn.w.uuid # w.uuid

\* C12: in every state, for every name and every order in which the
\* directory may be listed, create_new(name, summary) either returns the
\* session stored under that name (same session_id, conversation_id,
\* message_window, document_summary and usage totals, no session id used
\* up) or, when no snapshot has the name, a session with an unused
\* session_id, the given summary, zero usage totals and no branch_info.
C12_RecoverOrCreate ==
    \A name \in ConvNames, conv_id \in ConvIds :
        \A front \in FrontsCreateNew(name) :
            RecoversOrCreates(World, name, SummaryText,
                create_new(World, name, SummaryText, front, conv_id))


\* (input_tokens, output_tokens, cost) charged to a session or stored in a snapshot
Totals(s) == <<s.total_input_tokens, s.total_output_tokens, s.total_cost>>

Charged(t, usage) == <<t[1] + usage[1], t[2] + usage[2], t[3] + 3 * usage[1] + 15 * usage[2]>>

\* operations that reach the endpoint; result.arg[1] is the usage block of
\* its response
EndpointOps == {"process_documents", "create_conversation", "switch_conversation",
                "reload_documents"}

\* id u has a readable snapshot whose totals are t
StoresTotals(files, u, t) ==
    /\ u \in DOMAIN files
    /\ files[u].kind = "json"
    /\ Totals(files[u].data) = t

\* the cost of every session, stored or current, is 3 millionths per input
\* token and 15 per output token over its token totals
CostOfTotals(files, cur) ==
    /\ cur # None => cur.total_cost = 3 * cur.total_input_tokens + 15 * cur.total_output_tokens
    /\ \A u \in DOMAIN files :
          files[u].kind = "json" =>
              files[u].data.total_cost = 3 * files[u].data.total_input_tokens
                                           + 15 * files[u].data.total_output_tokens

\* C13: every tracked usage (input, output) adds exactly input, output and
\* 3*input + 15*output millionths to the totals of the session it is tracked
\* on (the current session of ask_question; the session that was current when
\* a document-processing call reached the endpoint), nothing else changes the
\* totals of a session, and so each session's totals are the sums over its
\* tracked usages: the cost of every session is 3*input + 15*output over its
\* token totals.
C13_UsageAccumulates ==
    [][ /\ CostOfTotals(sessions_dir', current_session')
        /\ (result'.op = "ask_question" /\ result'.exc = "none") =>
              /\ current_session'.session_id = current_session.session_id
              /\ Totals(current_session') = Charged(Totals(current_session), result'.arg[1])
        /\ (/\ result'.op \in EndpointOps
            /\ result'.exc = "none"
            /\ result'.arg[1] # NoUsage
            /\ current_session # None) =>
              StoresTotals(sessions_dir', current_session.session_id,
                           Charged(Totals(current_session), result'.arg[1]))
        /\ (/\ result'.op \in {"ld", "load_session", "create_branch"}
            /\ current_session # None
            /\ current_session' # None
            /\ current_session'.session_id = current_session.session_id) =>
              Totals(current_session') = Totals(current_session)
      ]_vars

\* (100, 50) and then (200, 100) were tracked on one session
C13_Witness ==
    /\ result.op = "ask_question"
    /\ result.exc = "none"
    /\ result.arg = <<LargeUsage>>
    /\ Totals(current_session) = <<300, 150, 3150>>


\* tr is what _track_usage gave: when it returned, the snapshot of the
\* tracked session carries the totals the session has in memory
TrackedAndStored(tr) ==
    tr.exc = "none" =>
        StoresTotals(tr.w.files, tr.w.cur.session_id, Totals(tr.w.cur))

\* C14: the stored totals never lag the totals in memory: in every state
\* between operations the snapshot of the current session carries the
\* session's total_input_tokens, total_output_tokens and total_cost, and in
\* every state a _track_usage on the current session, for any usage, leaves
\* them equal at its return.
C14_UsagePersistedAtOnce ==
    current_session # None =>
        /\ StoresTotals(sessions_dir, current_session.session_id, Totals(current_session))
        /\ \A usage \in Usages : TrackedAndStored(track_usage(World, usage))

\* a usage was tracked by ask_question and the snapshot shows it
C14_Witness ==
    /\ result.op = "ask_question"
    /\ result.exc = "none"
    /\ current_session.total_input_tokens > 0
    /\ StoresTotals(sessions_dir, current_session.session_id, Totals(current_session))


\* mw is a sequence of (user, assistant) pairs, each with one prompt id
Paired(mw) ==
    /\ Len(mw) % 2 = 0
    /\ \A k \in 1..(Len(mw) \div 2) :
          /\ mw[2 * k - 1].role = "user"
          /\ mw[2 * k].role = "assistant"
          /\ mw[2 * k - 1].prompt_id = mw[2 * k].prompt_id

\* C16: the message_window of the current session and of every stored
\* snapshot is a sequence of (user, assistant) pairs whose two messages
\* carry the same prompt_id, and the pair an ask_question has just appended
\* carries the id get_next_prompt_id returned to it (the text of the
\* session's counter).
C16_PairsShareOneId ==
    /\ current_session # None => Paired(current_session.message_window)
    /\ \A u \in DOMAIN sessions_dir :
          sessions_dir[u].kind = "json" => Paired(sessions_dir[u].data.message_window)
    /\ (result.op = "ask_question" /\ result.exc = "none") =>
          LET mw == current_session.message_window
          IN  /\ Len(mw) >= 2
              /\ mw[Len(mw)].prompt_id = FormatPromptId(current_session.last_prompt_id)
              /\ mw[Len(mw) - 1].prompt_id = FormatPromptId(current_session.last_prompt_id)

\* C17: no two persisted snapshots carry the same session name.
C17_OneSnapshotPerName ==
    \A u, v \in DOMAIN sessions_dir :
        (/\ sessions_dir[u].kind = "json"
         /\ sessions_dir[v].kind = "json"
         /\ sessions_dir[u].data.name = sessions_dir[v].data.name) => u = v

\* process_documents ran on a name that already had a snapshot with history,
\* next to a snapshot of another name
C17_Witness ==
    /\ result.op = "process_documents"
    /\ result.exc = "none"
    /\ current_session.message_window # <<>>
    /\ Cardinality(Named(current_session.name)) = 1
    /\ \E u \in DOMAIN sessions_dir :
          sessions_dir[u].kind = "json" /\ sessions_dir[u].data.name # current_session.name

\* C18: a save_session that fails leaves the directory as it was: the
\* operation ends with the error, every snapshot stored before it is still
\* there with its old contents, and no file is left that cannot be parsed.
C18_NoPartialCommit ==
    [][ /\ \A u \in DOMAIN sessions_dir' : sessions_dir'[u].kind = "json"
        /\ result'.exc = "TypeError" =>
              \A u \in DOMAIN sessions_dir :
                  /\ u \in DOMAIN sessions_dir'
                  /\ sessions_dir'[u] = sessions_dir[u]
      ]_vars

\* the snapshot stored under the id of s carries the mutable fields of s
PersistedAs(files, s) ==
    /\ s.session_id \in DOMAIN files
    /\ files[s.session_id].kind = "json"
    /\ LET data == files[s.session_id].data
       IN  /\ data.message_window = s.message_window
           /\ data.last_prompt_id = s.last_prompt_id
           /\ data.window_size = s.window_size
           /\ data.branch_info = s.branch_info
           /\ Totals(data) = Totals(s)

\* C19: when ask_question or /ld has returned normally the snapshot of the
\* current session equals the session in memory in message_window,
\* last_prompt_id, window_size, branch_info and usage totals, and when
\* DocumentProcessor.create_branch has returned normally the same holds of
\* the branch it made, which is then the current session.
C19_PersistedAfterMutation ==
    /\ (result.op \in {"ask_question", "ld"} /\ result.exc = "none") =>
          PersistedAs(sessions_dir, current_session)
    /\ (result.op = "create_branch" /\ result.exc = "none") =>
          /\ current_session = result.new_session
          /\ PersistedAs(sessions_dir, result.new_session)

\* /ld 1 has returned on a session that holds an asked pair
C19_Witness ==
    /\ result.op = "ld"
    /\ result.exc = "none"
    /\ current_session.window_size = 2
    /\ current_session.last_prompt_id > 0
    /\ current_session.message_window # <<>>
    /\ current_session.total_input_tokens > 0

\* r, what SessionManager.load_session(id) gave, is None when nothing is
\* stored under id and a session otherwise
FoundOrNone(files, id, r) ==
    /\ r.exc = "none"
    /\ r.session = None <=> id \notin DOMAIN files
    /\ r.session # None => r.session.session_id = id

\* r, what get_session_by_name(name) gave, is a session of that name when a
\* snapshot has the name and None otherwise
NamedOrNone(name, r) ==
    /\ r.exc = "none"
    /\ IF Named(name) # {}
       THEN r.session # None /\ r.session.name = name
       ELSE r.session = None

\* r, what DocumentProcessor.load_session gave for an id nothing is stored
\* under, is an error that left the current session alone
RefusedUnknown(w, r) ==
    /\ r.exc = "ValueError"
    /\ r.w.cur = w.cur

\* C20: in every state, load_session(id) returns None exactly for the ids
\* nothing is stored under and a session for the others (an empty
\* message_window included); get_session_by_name(name) returns a session
\* named name exactly when some snapshot has that name, None otherwise,
\* whatever the order of the listing; and DocumentProcessor.load_session on an
\* id nothing is stored under raises and leaves current_session unchanged.
C20_MissingIsNotEmpty ==
    /\ \A id \in 1..(MaxUuid + 1) :
          /\ FoundOrNone(sessions_dir, id, load_session(World, id))
          /\ id \notin DOMAIN sessions_dir =>
                RefusedUnknown(World, processor_load_session(World, id))
    /\ \A name \in ConvNames :
          \A front \in FrontsByName(name) :
              NamedOrNone(name, get_session_by_name(World, name, front))

\* L is one summary per name among the parseable snapshots of files, in
\* ascending order of name, each counting the user messages of a snapshot
\* of its name
ListingOf(L, files) ==
    /\ \A i, j \in 1..Len(L) : i < j => StrLess(L[i].name, L[j].name)
    /\ {L[i].name : i \in 1..Len(L)} =
          {files[u].data.name : u \in {v \in DOMAIN files : files[v].kind = "json"}}
    /\ \A i \in 1..Len(L) :
          \E u \in DOMAIN files :
              /\ files[u].kind = "json"
              /\ files[u].data.name = L[i].name
              /\ L[i].message_count = UserCount(files[u].data.message_window)

\* C21: list_sessions returns exactly one summary per distinct name among
\* the parseable snapshots, in strictly ascending order of name, each with
\* the number of user messages of the snapshot of that name, and leaves the
\* directory and the current session as they were.
C21_ListSessions ==
    [][ result'.op = "list_sessions" =>
            /\ ListingOf(result'.sent, sessions_dir)
            /\ UNCHANGED <<sessions_dir, name_dirs, processed_docs, next_uuid,
                           current_session>>
      ]_vars

\* "main" and "main/alt" were listed, both with a user message
C21_Witness ==
    /\ result.op = "list_sessions"
    /\ Len(result.sent) = 2
    /\ result.sent[1].name = MAIN
    /\ result.sent[2].name = MAIN_ALT
    /\ \A i \in 1..2 : result.sent[i].message_count > 0

RefusedDuplicate(w, r) ==
    /\ r.exc = "ValueError"
    /\ r.w = w

\* C23: in every state, create_conversation(name) for a name that has a
\* snapshot raises the ValueError of a duplicate name, whatever the order of
\* the listing and whatever the endpoint would do, and leaves the directory,
\* the cached understandings, the session ids and current_session as they
\* were.
C23_DuplicateNameRefused ==
    \A name \in ConvNames :
        Named(name) # {} =>
            \A front \in FrontsByName(name), ep \in Endpoints, conv_id \in ConvIds :
                RefusedDuplicate(World,
                    create_conversation(World, name, ep.run, ep.usage, front, conv_id))

\* C24: a session that holds a pair never has an empty message_window
\* again: for every session id whose snapshot holds a message before an
\* operation, after it the snapshot of that id (if one can be read), the
\* current session (if it has that id) and the session create_branch handed
\* to save_session (if it has that id) hold a message too.
C24_NoWayBackToFresh ==
    [][ \A u \in DOMAIN sessions_dir :
            (/\ sessions_dir[u].kind = "json"
             /\ sessions_dir[u].data.message_window # <<>>) =>
                /\ (u \in DOMAIN sessions_dir' /\ sessions_dir'[u].kind = "json") =>
                      sessions_dir'[u].data.message_window # <<>>
                /\ (current_session' # None /\ current_session'.session_id = u) =>
                      current_session'.message_window # <<>>
                /\ (result'.new_session # None /\ result'.new_session.session_id = u) =>
                      result'.new_session.message_window # <<>>
      ]_vars

\* what the endpoint raises: the transient errors and a fatal one
EndpointErrors == Transient \cup {"APIError"}

\* ask_question on w ended with r
FailedAskKeeps(w, r) == r.exc \in EndpointErrors => r.w = w

\* the ask that met k transient failures first ended like the one that met none
SameAsAtOnce(r, r0) == r = r0

\* C27: an ask_question that ends by raising an endpoint error (a fatal one,
\* or a transient one on the fifth pass) leaves the current session, its
\* history, last_prompt_id and totals, and every stored snapshot as they
\* were; an ask that succeeds after transient failures gives the caller what
\* it would have given without them.
C27_FailedAskLeavesSession ==
    current_session # None =>
        \A question \in Questions, answer \in Answers :
            /\ \A ep \in Endpoints :
                  FailedAskKeeps(World,
                      ask_question(World, question, ep.run, ep.usage, answer))
            /\ \A usage \in Usages, k \in 1..(DEFAULT_MAX_RETRIES - 1) :
                  SameAsAtOnce(
                      ask_question(World, question, TransientRun(k) \o <<"ok">>, usage, answer),
                      ask_question(World, question, <<"ok">>, usage, answer))

C27_Witness ==
    /\ result.op = "ask_question"
    /\ result.exc = "RateLimitError"
    /\ current_session # None
    /\ Len(current_session.message_window) = 2
    /\ current_session.last_prompt_id = 1
    /\ current_session.total_input_tokens > 0
    /\ PersistedAs(sessions_dir, current_session)

\* r is the one successful ask of `question` on world w with its response
\* carrying `usage`
OnePairMore(w, r, question, answer, usage) ==
    LET before == w.cur.message_window
        after  == r.w.cur.message_window
        id     == FormatPromptId(w.cur.last_prompt_id + 1)
    IN  /\ after = before \o <<Message("user", question, id),
                               Message("assistant", answer, id)>>
        /\ r.w.cur.last_prompt_id = w.cur.last_prompt_id + 1
        /\ r.w.cur.total_input_tokens = w.cur.total_input_tokens + usage[1]
        /\ r.w.cur.total_output_tokens = w.cur.total_output_tokens + usage[2]
        /\ r.w.cur.total_cost = w.cur.total_cost + usage_cost(usage)

AskedOnce(w, r, question, answer, usage) ==
    IF r.exc = "none" THEN OnePairMore(w, r, question, answer, usage)
    ELSE r.exc \notin EndpointErrors

\* C28: an ask_question that succeeds after 0 to 4 transient failures
\* appends exactly one (user, assistant) pair, advances last_prompt_id by
\* exactly 1 and adds the usage of exactly one response to the totals; the
\* passes that failed took no prompt id and added no usage.
C28_RetriesDoNotDuplicate ==
    current_session # None =>
        \A question \in Questions, answer \in Answers, usage \in Usages,
           k \in 0..(DEFAULT_MAX_RETRIES - 1) :
            AskedOnce(World,
                      ask_question(World, question, TransientRun(k) \o <<"ok">>, usage, answer),
                      question, answer, usage)

C28_Witness ==
    /\ result.op = "ask_question"
    /\ result.exc = "none"
    /\ result.arg = <<LargeUsage>>
    /\ current_session # None
    /\ Len(current_session.message_window) = 2
    /\ current_session.last_prompt_id = 1
    /\ current_session.total_input_tokens = LargeUsage[1]

\* the runs of the endpoint that end with a response
AnsweringRuns == {TransientRun(k) \o <<"ok">> : k \in 0..(DEFAULT_MAX_RETRIES - 1)}

\* process_documents(docs, name) on w, its endpoint call answered with
\* `usage`, ended with r: it returned, the session of that name is current
\* and carries the usage, and no snapshot of another name has other totals
\* than before
ChargedToNamed(w, r, name, usage) ==
    /\ r.exc = "none"
    /\ r.w.cur # None
    /\ r.w.cur.name = name
    /\ r.w.cur.total_input_tokens >= usage[1]
    /\ \A u \in DOMAIN w.files :
          (w.files[u].kind = "json" /\ w.files[u].data.name # name) =>
              StoresTotals(r.w.files, u, Totals(w.files[u].data))

\* C30: the usage of an endpoint call that returned is added to the totals of
\* the session the call was made for, and the operation goes on:
\* process_documents(docs, name), with no session current or with a session
\* of another name current, charges the session named name, no other, and
\* does not fail once the endpoint has answered.
C30_UsageChargedToNamedSession ==
    \A name \in ConvNames \ processed_docs, conv_id \in ConvIds, usage \in Usages :
        (current_session = None \/ current_session.name # name) =>
            \A front \in FrontsCreateNew(name), run \in AnsweringRuns :
                ChargedToNamed(World,
                    process_documents(World, name, run, usage, front, conv_id),
                    name, usage)

\* the session from_dict makes of a snapshot and the one create_new gave for
\* its name carry one counter, not below any user prompt id of the snapshot
SameCounter(data, cn) ==
    /\ cn.exc = "none"
    /\ cn.session # None
    /\ cn.session.last_prompt_id = from_dict(data).last_prompt_id
    /\ from_dict(data).last_prompt_id >= MaxUserId(data.message_window)
    /\ NextIdFresh(from_dict(data))

\* C31: for every stored snapshot, the session load_session makes of it
\* (from_dict) and the session Session.create_new makes of its name have the
\* same last_prompt_id, which is at least the largest prompt id among the
\* snapshot's user messages, so that the next id is not in the history.
C31_SameCounterBothWays ==
    \A u \in DOMAIN sessions_dir :
        sessions_dir[u].kind = "json" =>
            \A front \in FrontsCreateNew(sessions_dir[u].data.name), conv_id \in ConvIds :
                SameCounter(sessions_dir[u].data,
                            create_new(World, sessions_dir[u].data.name, SummaryText,
                                       front, conv_id))

\* `sent` is the last n messages of `stored`, in order, and then the question
SuffixThenQuestion(sent, stored, n) ==
    /\ Len(sent) = n + 1
    /\ n <= Len(stored)
    /\ \A i \in 1..n :
          sent[i] = [role |-> stored[Len(stored) - n + i].role,
                     content |-> stored[Len(stored) - n + i].content]
    /\ sent[Len(sent)].role = "user"
    /\ sent[Len(sent)].content \in Questions

\* the history the session had when the ask that gave `result` began
HistoryBeforeAsk ==
    IF result.exc = "none"
    THEN SubSeq(current_session.message_window, 1,
                Len(current_session.message_window) - 2)
    ELSE current_session.message_window

\* C32: the messages ask_question sends are a suffix of message_window in
\* stored order followed by the question as the last, user, message; the
\* suffix is never longer than window_size: none of the history for
\* window_size 0, all of it when window_size exceeds its length.
C32_SuffixWithinWindow ==
    (result.op = "ask_question" /\ result.sent # <<>>) =>
        SuffixThenQuestion(result.sent, HistoryBeforeAsk,
                           Min(Len(HistoryBeforeAsk), current_session.window_size))

\* create_branch(branch_name, ...) on world w, whose current session is the
\* parent, ended with r
ParentKept(w, r) ==
    /\ r.exc # "none" => r.w.cur = w.cur
    /\ w.cur.session_id \in DOMAIN w.files =>
          /\ w.cur.session_id \in DOMAIN r.w.files
          /\ r.w.files[w.cur.session_id] = w.files[w.cur.session_id]

FreshBranch(w, r) ==
    r.new_session # None =>
        /\ r.new_session.session_id # w.cur.session_id
        /\ r.new_session.session_id \notin DOMAIN w.files
        /\ Totals(r.new_session) = <<0, 0, 0>>

BranchedOff(w, r, unused) == ParentKept(w, r) /\ (unused => FreshBranch(w, r))

\* C33: create_branch leaves its parent as it was, whether it returns or
\* raises: the parent session in all its fields and the parent's snapshot;
\* and a branch made under a composite name that had no snapshot has a
\* session_id of its own and usage totals of zero.
C33_BranchLeavesParent ==
    current_session # None =>
        \A branch_name \in BranchNames, include_history \in BOOLEAN, conv_id \in ConvIds :
            \A front \in FrontsCreateNew(current_session.name \o <<SLASH>> \o branch_name) :
                BranchedOff(World,
                    processor_create_branch(World, branch_name, include_history, front, conv_id),
                    Named(current_session.name \o <<SLASH>> \o branch_name) = {})

C33_Witness ==
    /\ result.op = "create_branch"
    /\ result.new_session # None
    /\ result.new_session.name = MAIN_ALT
    /\ current_session # None
    /\ current_session.name = MAIN
    /\ current_session.total_input_tokens > 0
    /\ Len(current_session.message_window) = 2
    /\ PersistedAs(sessions_dir, current_session)
    /\ result.new_session.session_id # current_session.session_id
    /\ Totals(result.new_session) = <<0, 0, 0>>

\* "00001"
FirstPromptId == FormatPromptId(1)

\* ask_question on world w ended with r: whatever is stored under another
\* id than the current session's is as before, the same session is current,
\* and the first pair of a session has the id "00001"
AskedCurrentOnly(w, r) ==
    /\ DOMAIN r.w.files = DOMAIN w.files
    /\ \A u \in DOMAIN w.files : u # w.cur.session_id => r.w.files[u] = w.files[u]
    /\ r.w.cur.session_id = w.cur.session_id
    /\ r.w.cur.name = w.cur.name
    /\ (r.exc = "none" /\ w.cur.message_window = <<>>) =>
          /\ Len(r.w.cur.message_window) = 2
          /\ r.w.cur.message_window[1].prompt_id = FirstPromptId
          /\ r.w.cur.message_window[2].prompt_id = FirstPromptId

\* C34: an ask appends to the session that is current and to no other: the
\* snapshots of all other sessions keep their message_window, last_prompt_id
\* and totals, and each session numbers its own pairs from "00001" whatever
\* the others have got to.
C34_SessionsIsolated ==
    (current_session # None /\ current_session.session_id \in DOMAIN sessions_dir) =>
        \A question \in Questions, answer \in Answers, ep \in Endpoints :
            AskedCurrentOnly(World,
                ask_question(World, question, ep.run, ep.usage, answer))

\* "main" was asked once, then "main/alt" was switched to and asked once
C34_Witness ==
    /\ result.op = "ask_question"
    /\ result.exc = "none"
    /\ current_session # None
    /\ current_session.name = MAIN_ALT
    /\ UserIdSeq(current_session.message_window) = <<1>>
    /\ PersistedAs(sessions_dir, current_session)
    /\ \E u \in Named(MAIN) :
          /\ u # current_session.session_id
          /\ UserIdSeq(sessions_dir[u].data.message_window) = <<1>>
          /\ sessions_dir[u].data.last_prompt_id = 1

\* the directory without the files that cannot be parsed
ValidFiles(files) ==
    [u \in {v \in DOMAIN files : files[v].kind = "json"} |-> files[u]]

\* r is what the operation gave on the whole directory, v what it gave on the
\* parseable files alone
SameOutcome(r, v) == r.exc = v.exc /\ r.session = v.session

\* C38: a file that cannot be parsed is skipped by every operation that scans
\* the directory: Session.create_new, get_session_by_name and list_sessions
\* give what they would give if the file were not there, whatever the order
\* of the listing.
C38_UnparseableSkipped ==
    Unparseable # {} =>
        /\ \A name \in ConvNames, conv_id \in ConvIds :
              /\ \A front \in FrontsCreateNew(name) \cup Unparseable :
                    SameOutcome(
                        create_new(World, name, SummaryText, front, conv_id),
                        create_new([World EXCEPT !.files = ValidFiles(sessions_dir)],
                                   name, SummaryText, front, conv_id))
              /\ \A front \in FrontsByName(name) :
                    SameOutcome(
                        get_session_by_name(World, name, front),
                        get_session_by_name([World EXCEPT !.files = ValidFiles(sessions_dir)],
                                            name, front))
        /\ \A front \in DOMAIN sessions_dir :
              list_sessions(sessions_dir, front)
                  = list_sessions(ValidFiles(sessions_dir), front)

----------------------------------------------------------------------------
(* Properties of concurrent creation, checked under SpecConcurrent *)

AllSaved == \A a \in Actors : actors[a].pc = "saved"

\* C26 as stated: when two processes interleave Session.create_new(name) and
\* save_session for one name that had no snapshot, the directory ends with
\* at most one snapshot of that name.
C26_OneSnapshotUnderRace ==
    AllSaved => \A name \in ConvNames : Cardinality(Named(name)) <= 1

\* what a step of one process does to the snapshots of its name
CreateNewStep(a) ==
    LET name == actors'[a].name
        sid  == actors'[a].session.session_id
    IN  IF Named(name) # {}
        THEN sid \in Named(name) /\ next_uuid' = next_uuid
        ELSE /\ sid \notin DOMAIN sessions_dir
             /\ \A b \in Actors \ {a} :
                    actors[b].session # None => actors[b].session.session_id # sid

DumpStep(a) ==
    \A name \in ConvNames :
        Named(name)' = Named(name) \cup
            (IF actors[a].name = name THEN {actors[a].session.session_id} ELSE {})

\* C26, amended: a process whose create_new runs while a complete snapshot of
\* the name is stored recovers that snapshot and allocates no id, so its
\* save adds none; a process whose create_new runs while none is stored
\* makes a session under an id of its own, and its save adds one snapshot of
\* the name.  The directory therefore ends with one snapshot of the name
\* only when the second create_new runs after the first save has completed,
\* and with one per process otherwise.
C26_OneSnapshotUnlessRaced ==
    [][\A a \in Actors :
          /\ (actors[a].pc = "start" /\ actors'[a].pc = "created") => CreateNewStep(a)
          /\ (actors[a].pc = "writing" /\ actors'[a].pc = "saved") => DumpStep(a)
          /\ actors'[a].pc # "failed"]_vars

C26_Witness ==
    /\ AllSaved
    /\ \A a \in Actors : actors[a].name = MAIN
    /\ Cardinality(Named(MAIN)) = MaxActors

----------------------------------------------------------------------------
(* Properties of one ask_question call, checked under SpecAsk *)

\* the pair the call appends
AskedPair == <<Message("user", ask.question, ask.prompt_id),
               Message("assistant", ask.response.text, ask.prompt_id)>>

\* the call has its response, and the totals of the current session are
\* those it was entered with plus the usage of that response, and stored
UsagePersisted ==
    /\ ask.response # None
    /\ Totals(current_session) = Charged(Totals(ask.entry), ask.response.usage)
    /\ StoresTotals(sessions_dir, current_session.session_id, Totals(current_session))

IdAllocated ==
    /\ UsagePersisted
    /\ current_session.last_prompt_id = ask.entry.last_prompt_id + 1
    /\ ask.prompt_id = FormatPromptId(current_session.last_prompt_id)

PairAppended ==
    /\ IdAllocated
    /\ current_session.message_window = ask.entry.message_window \o AskedPair

StoredWindow == sessions_dir[current_session.session_id].data.message_window

\* C29: in one ask_question the messages sent are the slice of the history
\* as the call found it, followed by the question; nothing of the session
\* or its snapshot changes before the endpoint has answered; the totals
\* change only by the usage of that answer and are stored when they have;
\* last_prompt_id moves only once that usage is stored; the history grows
\* only once the id is allocated, by the pair under that id; and the
\* snapshot's history changes only once the pair is in the session.
C29_OrderWithinAsk ==
    ask.entry # None =>
        /\ ask.messages = history_messages(ask.entry)
                              \o <<[role |-> "user", content |-> ask.question]>>
        /\ ask.response = None =>
              current_session = ask.entry /\ PersistedAs(sessions_dir, ask.entry)
        /\ Totals(current_session) # Totals(ask.entry) => UsagePersisted
        /\ current_session.last_prompt_id # ask.entry.last_prompt_id => IdAllocated
        /\ ask.prompt_id # None => IdAllocated
        /\ current_session.message_window # ask.entry.message_window => PairAppended
        /\ StoredWindow # ask.entry.message_window =>
              PairAppended /\ StoredWindow = current_session.message_window
        /\ ask.pc = "done" => PairAppended /\ PersistedAs(sessions_dir, current_session)

C29_Witness ==
    /\ ask.pc = "done"
    /\ ask.retry = DEFAULT_MAX_RETRIES - 1
    /\ Len(ask.entry.message_window) = 4
    /\ ask.entry.window_size = 2
    /\ Len(ask.messages) = 3
    /\ ask.response.usage = LargeUsage

----------------------------------------------------------------------------
(* Properties of concurrent asks on one session, checked under SpecShared *)

AllAsked == \A a \in Actors : actors[a].pc = "saved"

\* the pairs stored in all
StoredPairs == Len(sessions_dir[SharedId].data.message_window) \div 2

\* the last pair of session s is the one its ask appended
EndsWithOwnPair(s) ==
    /\ Len(s.message_window) >= 2
    /\ s.message_window[Len(s.message_window) - 1] =
          Message("user", "q1", FormatPromptId(s.last_prompt_id))
    /\ s.message_window[Len(s.message_window)] =
          Message("assistant", "a1", FormatPromptId(s.last_prompt_id))

C37_NoSessionFailsAtOnce ==
    [][current_session = None =>
          /\ sessions_dir' = sessions_dir
          /\ current_session' = None
          /\ ask'.retry = 0
          /\ ask'.messages = <<>>
          /\ ask'.response = None
          /\ ask'.pc \in {"idle", "raised"}
          /\ ask'.pc = "raised" => ask'.exc = "ValueError"]_vars

C37_Witness ==
    /\ current_session = None
    /\ ask.pc = "raised"
    /\ ask.exc = "ValueError"
    /\ ask.retry = 0
    /\ sessions_dir # <<>>

----------------------------------------------------------------------------
(* Properties of get_next_prompt_id, checked under SpecPromptId *)

\* C15: every get_next_prompt_id call returns the text of the integer one
\* above the session's counter, which becomes the counter, so one above the
\* value the call before it returned; and the text has exactly 5
\* characters.
C15_NextIdFiveDigits ==
    [][ result'.op = "get_next_prompt_id" =>
            /\ Len(result'.arg[1]) = 5
            /\ ParseInt(result'.arg[1]) = current_session.last_prompt_id + 1
            /\ current_session'.last_prompt_id = current_session.last_prompt_id + 1
            /\ result.op = "get_next_prompt_id" =>
                  ParseInt(result'.arg[1]) = ParseInt(result.arg[1]) + 1
      ]_vars

----------------------------------------------------------------------------
(* Properties of the retry wrapper, checked under SpecRetry *)

RECURSIVE Pow2(_)
Pow2(n) == IF n = 0 THEN 1 ELSE 2 * Pow2(n - 1)

AllTransient(outcomes) == \A i \in 1..Len(outcomes) : outcomes[i] \in Transient

\* C4: with the default policy, when the call fails with a transient error k
\* times in a row (0 <= k <= 4) and then succeeds, the wrapper returns the
\* success after exactly k+1 attempts and exactly k sleeps, the i-th sleep
\* having base delay 2^(i-1) plus a jitter of 0 to 10% of that base; and
\* while at most 4 transient failures have occurred nothing has been raised.
C4_TransientThenSuccess ==
    rcfg = DefaultConfig =>
        /\ (attempts # <<>> /\ attempts[Len(attempts)] = "ok") =>
              LET k == Len(attempts) - 1
              IN  /\ k \in 0..4
                  /\ AllTransient(SubSeq(attempts, 1, k))
                  /\ rstate = "Succeeded"
                  /\ raised = None
                  /\ Len(sleeps) = k
                  /\ \A i \in 1..k :
                        /\ sleeps[i].base = Pow2(i - 1)
                        /\ sleeps[i].sleep_time >= 1000 * sleeps[i].base
                        /\ sleeps[i].sleep_time <= 1100 * sleeps[i].base
        /\ (AllTransient(attempts) /\ Len(attempts) <= 4) =>
              /\ rstate \in {"Idle", "Attempting", "Backoff"}
              /\ raised = None

\* three transient failures, then a success: base delays 1, 2, 4
C4_Witness ==
    /\ rcfg = DefaultConfig
    /\ rstate = "Succeeded"
    /\ Len(attempts) = 4
    /\ Len(sleeps) = 3
    /\ sleeps[3].base = 4

\* C5: with the default policy the wrapper makes at most 5 attempts; when the
\* call fails with a transient error 5 times in a row, the error of the 5th
\* attempt is raised, exactly 4 sleeps have occurred (none after the final
\* failure) and the wrapper returns no value.
C5_AtMostFiveAttempts ==
    rcfg = DefaultConfig =>
        /\ Len(attempts) <= 5
        /\ Len(sleeps) <= 4
        /\ (Len(attempts) = 5 /\ AllTransient(attempts)) =>
              /\ rstate = "Raised"
              /\ raised = [kind |-> attempts[5], attempt |-> 5]
              /\ Len(sleeps) = 4

C5_Witness ==
    /\ rcfg = DefaultConfig
    /\ Len(attempts) = 5
    /\ AllTransient(attempts)
    /\ rstate = "Raised"

\* C6: an attempt that fails with an error that is neither a rate-limit nor a
\* server-overload error is the last attempt, whichever attempt it is: that
\* error is raised, and the only sleeps are those that preceded the attempt.
C6_NonRetryableRaisedAtOnce ==
    \A n \in 1..Len(attempts) :
        (attempts[n] # "ok" /\ attempts[n] \notin Transient) =>
            /\ n = Len(attempts)
            /\ rstate = "Raised"
            /\ raised = [kind |-> attempts[n], attempt |-> n]
            /\ Len(sleeps) = n - 1

\* a fatal error on the second attempt, after one transient failure
C6_Witness ==
    /\ rstate = "Raised"
    /\ raised = [kind |-> "APIError", attempt |-> 2]
    /\ Len(sleeps) = 1

\* C25: whatever max_retries, initial_delay and max_delay the decorator is
\* given, the i-th sleep of an invocation has the base delay
\* min(initial_delay * 2^(i-1), max_delay); base delays never decrease and
\* never exceed max_delay, and each sleep lasts at least its base delay and
\* at most 1.1 times it.
C25_BaseDelays ==
    \A i \in 1..Len(sleeps) :
        /\ sleeps[i].base = Min(rcfg.initial_delay * Pow2(i - 1), rcfg.max_delay)
        /\ sleeps[i].base <= rcfg.max_delay
        /\ i > 1 => sleeps[i - 1].base <= sleeps[i].base
        /\ sleeps[i].sleep_time >= 1000 * sleeps[i].base
        /\ sleeps[i].sleep_time <= 1100 * sleeps[i].base

----------------------------------------------------------------------------
(* Termination of the wrapper, checked under SpecRetryFair *)

Running == rstate \in {"Attempting", "Backoff"}
Ended   == rstate \in {"Succeeded", "Raised"}

\* C36: with the default policy every invocation ends, in Succeeded or with
\* an error raised, after at most 5 attempts and 4 sleeps, whatever the
\* calls do; it does not stay in Attempting or Backoff for ever, and it does
\* not return without a call that succeeded.
C36_Terminates ==
    /\ [](rcfg = DefaultConfig =>
            /\ rstate # "ReturnedNone"
            /\ Len(attempts) <= DEFAULT_MAX_RETRIES
            /\ Len(sleeps) <= DEFAULT_MAX_RETRIES - 1
            /\ rstate = "Succeeded" => attempts[Len(attempts)] = "ok"
            /\ rstate = "Raised" => raised # None)
    /\ ((rcfg = DefaultConfig /\ Running) ~> Ended)

\* the fifth call succeeded after four sleeps
C36_Witness ==
    /\ rcfg = DefaultConfig
    /\ rstate = "Succeeded"
    /\ Len(attempts) = DEFAULT_MAX_RETRIES
    /\ Len(sleeps) = DEFAULT_MAX_RETRIES - 1

====
